---- MODULE Spec2Model ----
(***************************************************************************)
(* A model of git-reviewer: configuration merging and validation            *)
(* (config.py), the git calls (git_integration.py), the context files       *)
(* (context.py), the prompt template (template.py), the review command      *)
(* (cli.py), the execution adapter (nllm_runner.py) and the Python API      *)
(* entry point (api.py).                                                    *)
(*                                                                          *)
(* Python values are tagged records so that values of different Python      *)
(* types can live in one mapping: kind is the Python type, n the integer,   *)
(* s the string (a sequence of one-character strings), l the list items     *)
(* and d the dict items (a function from keys to values).                   *)
(***************************************************************************)
EXTENDS Integers, Sequences, FiniteSets, TLC

VARIABLES
    mBase, mOverride, mResult,                    \* deep_merge_config call
    globalFile, localFile, configOverride, loaded, \* load_config call
    pc, cliOpts, modelConfigs, libReturn, runReturn,
    nllmCalled, raised, exitCode, stagesRun, interruptedAt,
    diffScopeUsed,                                \* review command
    apiArgs, apiOutcome,                          \* review_repository call
    vConfig, vOutcome,                            \* validate_config call
    gmConfig, gmNames, gmOutcome,                 \* get_models_config call
    repo, scope, prepared, diffOutcome,           \* git_integration.py calls
    fileSystem, contextFiles, contextOutcome,     \* build_repo_context call
    templateContent, variables, substituted,      \* substitute_variables call
    populatedTemplate, formatted,                 \* format_prompt_for_nllm call
    runModels, runPrompt, nllmImportable, library, runOutcome, \* run_review call
    templateData, repoContext, diffContent, populated, \* populate_template call
    heap, heapBefore, callCount, lastCall             \* config.py calls on objects

mergeVars  == <<mBase, mOverride, mResult>>
configVars == <<globalFile, localFile, configOverride, loaded>>
cliVars    == <<pc, cliOpts, modelConfigs, libReturn, runReturn,
                nllmCalled, raised, exitCode, stagesRun, interruptedAt,
                diffScopeUsed>>
apiVars    == <<apiArgs, apiOutcome>>
validateVars == <<vConfig, vOutcome>>
modelsVars   == <<gmConfig, gmNames, gmOutcome>>
gitVars      == <<repo, scope, prepared, diffOutcome>>
contextVars  == <<fileSystem, contextFiles, contextOutcome>>
templateVars == <<templateContent, variables, substituted>>
formatVars   == <<populatedTemplate, formatted>>
\* the variables of the single-function specifications
unitVars   == <<validateVars, modelsVars, gitVars, contextVars, templateVars>>
runnerVars   == <<runModels, runPrompt, nllmImportable, library, runOutcome>>
populateVars == <<templateData, repoContext, diffContent, populated>>
objectVars   == <<heap, heapBefore, callCount, lastCall>>
partVars   == <<formatVars, runnerVars, populateVars, objectVars>>
vars       == <<mBase, mOverride, mResult,
                globalFile, localFile, configOverride, loaded,
                pc, cliOpts, modelConfigs, libReturn, runReturn,
                nllmCalled, raised, exitCode, stagesRun, interruptedAt,
                diffScopeUsed,
                apiArgs, apiOutcome,
                vConfig, vOutcome, gmConfig, gmNames, gmOutcome,
                repo, scope, prepared, diffOutcome,
                fileSystem, contextFiles, contextOutcome,
                templateContent, variables, substituted,
                populatedTemplate, formatted,
                runModels, runPrompt, nllmImportable, library, runOutcome,
                templateData, repoContext, diffContent, populated,
                heap, heapBefore, callCount, lastCall>>

----------------------------------------------------------------------------
(* Python values *)

NoneV    == [kind |-> "none", n |-> 0, s |-> <<>>, l |-> <<>>, d |-> <<>>]
IntV(i)  == [kind |-> "int",  n |-> i, s |-> <<>>, l |-> <<>>, d |-> <<>>]
StrV(x)  == [kind |-> "str",  n |-> 0, s |-> x,    l |-> <<>>, d |-> <<>>]
ListV(q) == [kind |-> "list", n |-> 0, s |-> <<>>, l |-> q,    d |-> <<>>]
DictV(f) == [kind |-> "dict", n |-> 0, s |-> <<>>, l |-> <<>>, d |-> f]

\* marks a key that a layer does not set; never stored in a mapping
Absent   == [kind |-> "absent", n |-> 0, s |-> <<>>, l |-> <<>>, d |-> <<>>]

EmptyDict == <<>>

Max(S) == CHOOSE x \in S : \A y \in S : y <= x

Min(S) == CHOOSE x \in S : \A y \in S : x <= y

\* str.strip(): drop leading and trailing whitespace.
IsSpace(c) == c \in {" ", "\t", "\n"}

RECURSIVE LStrip(_)
LStrip(x) == IF x # <<>> /\ IsSpace(Head(x)) THEN LStrip(Tail(x)) ELSE x

RECURSIVE RStrip(_)
RStrip(x) ==
    IF x # <<>> /\ IsSpace(x[Len(x)]) THEN RStrip(SubSeq(x, 1, Len(x) - 1)) ELSE x

Strip(x) == RStrip(LStrip(x))

----------------------------------------------------------------------------
(* config.py: deep_merge_config *)

\* A merge that replaces a key wholesale even when both sides are mappings.
deep_merge_config_shallow(base, override) ==
    [key \in DOMAIN base \cup DOMAIN override |->
        IF key \in DOMAIN override THEN override[key] ELSE base[key]]

RECURSIVE deep_merge_config(_, _)
deep_merge_config(base, override) ==
    [key \in DOMAIN base \cup DOMAIN override |->
        IF key \in DOMAIN override
        THEN IF /\ key \in DOMAIN base
                /\ base[key].kind = "dict"
                /\ override[key].kind = "dict"
             THEN DictV(deep_merge_config(base[key].d, override[key].d))
             ELSE override[key]
        ELSE base[key]]

----------------------------------------------------------------------------
(* Inputs of the deep_merge_config specification: mappings over two keys,   *)
(* nested up to three levels along key "a".                                 *)

MaxLeaf == 1

MergeKeys == {"a", "b"}

Leaves == {IntV(i) : i \in 1..MaxLeaf} \cup {ListV(<<IntV(1)>>)}

MappingsOver(K, V) == UNION {[S -> V] : S \in SUBSET K}

Dicts1 == MappingsOver(MergeKeys, Leaves)

Dicts2 == MappingsOver(MergeKeys, Leaves \cup {DictV(f) : f \in Dicts1})

Dicts3 == MappingsOver({"a"}, {DictV(f) : f \in Dicts2})

MergeInputs == Dicts2 \cup Dicts3

Unset == [set |-> FALSE, d |-> EmptyDict]

InitMerge ==
    /\ mBase \in MergeInputs
    /\ mOverride \in MergeInputs
    /\ mResult = Unset

DeepMerge ==
    /\ ~mResult.set
    /\ mResult' = [set |-> TRUE, d |-> deep_merge_config(mBase, mOverride)]
    /\ UNCHANGED <<mBase, mOverride>>

----------------------------------------------------------------------------
(* config.py: DEFAULT_CONFIG, load_yaml_config, validate_config, load_config *)

Str_main      == <<"m", "a", "i", "n">>
Str_all       == <<"a", "l", "l">>
Str_committed == <<"c", "o", "m", "m", "i", "t", "t", "e", "d">>
Str_template  == <<"r", "e", "v", "i", "e", "w", ".", "t", "e", "m", "p", "l",
                   "a", "t", "e", ".", "y", "m", "l">>

DEFAULT_CONFIG ==
    [models   |-> ListV(<<>>),
     defaults |-> DictV([parallel |-> IntV(3),
                         timeout  |-> IntV(120),
                         retries  |-> IntV(1)]),
     git      |-> DictV([context_lines |-> IntV(3),
                         base_branch   |-> StrV(Str_main),
                         diff_scope    |-> StrV(Str_all)]),
     paths    |-> DictV([template   |-> StrV(Str_template),
                         output_dir |-> NoneV])]

\* Outcome of a call: the exception raised ("none" when it returns), the
\* error message and the value returned.
\* A message is its format text, the key or the index it interpolates and,
\* for messages that end with a list of names, that list.
MessageListing(text, key, index, names) ==
    [text |-> text, key |-> key, index |-> index, names |-> names]

Message(text, key, index) == MessageListing(text, key, index, <<>>)

NoMessage == Message("", "", -1)

Returned(v) == [exc |-> "none", msg |-> NoMessage, value |-> v]

Raised(e, m) == [exc |-> e, msg |-> m, value |-> NoneV]

\* Python truth value of a value (`config or {}`, `if config_override:`).
Truthy(v) ==
    CASE v.kind = "none" -> FALSE
      [] v.kind = "int"  -> v.n # 0
      [] v.kind = "str"  -> v.s # <<>>
      [] v.kind = "list" -> v.l # <<>>
      [] v.kind = "dict" -> DOMAIN v.d # {}

\* A configuration file: whether it exists, whether it parses as YAML, and
\* the value yaml.safe_load returns for it.
NoFile == [exists |-> FALSE, parses |-> TRUE, content |-> NoneV]

BadYamlFile == [exists |-> TRUE, parses |-> FALSE, content |-> NoneV]

YamlFile(v) == [exists |-> TRUE, parses |-> TRUE, content |-> v]

load_yaml_config(file) ==
    IF ~file.exists THEN Returned(DictV(EmptyDict))
    ELSE IF ~file.parses
         THEN Raised("ConfigurationError", Message("Invalid YAML in config file", "", -1))
         ELSE IF Truthy(file.content) THEN Returned(file.content)
              ELSE Returned(DictV(EmptyDict))

\* The first check of validate_config that a model entry fails ("" if none).
ModelIssue(model) ==
    IF model.kind # "dict" THEN "Model at index {i} must be a dictionary"
    ELSE IF "name" \notin DOMAIN model.d
         THEN "Model at index {i} missing required 'name' field"
         ELSE IF "options" \in DOMAIN model.d /\ model.d["options"].kind # "list"
              THEN "Model '{name}' options must be a list"
              ELSE ""

\* A check that tests the type only and forgets `value < 0`.
IsNonNegativeInt_type_only(v) == v.kind = "int"

\* `isinstance(value, int) and value >= 0` (booleans are not modelled).
IsNonNegativeInt(v) == v.kind = "int" /\ v.n >= 0

\* A presence check that looks for the sections in another order.
required_keys_reordered == <<"paths", "git", "defaults", "models">>

required_keys == <<"models", "defaults", "git", "paths">>

NumericDefaults == <<"parallel", "timeout", "retries">>

\* validate_config: the message of the ConfigurationError it raises, or
\* NoMessage when it returns.
validate_config(config) ==
    LET missing == {i \in DOMAIN required_keys : required_keys[i] \notin DOMAIN config}
    IN
    IF missing # {}
    THEN LET first == CHOOSE i \in missing : \A j \in missing : i <= j
         IN  Message("Missing required configuration key: {key}", required_keys[first], -1)
    ELSE
    LET models   == config["models"]
        defaults == config["defaults"]
        git      == config["git"]
    IN
    IF models.kind # "list" THEN Message("'models' must be a list", "", -1)
    ELSE
    LET badModels == {i \in DOMAIN models.l : ModelIssue(models.l[i]) # ""}
    IN
    IF badModels # {}
    THEN LET first == CHOOSE i \in badModels : \A j \in badModels : i <= j
         IN  Message(ModelIssue(models.l[first]), "", first - 1)
    ELSE
    IF defaults.kind # "dict" THEN Message("'defaults' must be a dictionary", "", -1)
    ELSE
    LET badDefaults == {i \in DOMAIN NumericDefaults :
                          /\ NumericDefaults[i] \in DOMAIN defaults.d
                          /\ ~IsNonNegativeInt(defaults.d[NumericDefaults[i]])}
    IN
    IF badDefaults # {}
    THEN LET first == CHOOSE i \in badDefaults : \A j \in badDefaults : i <= j
         IN  Message("'defaults.{key}' must be a non-negative integer",
                     NumericDefaults[first], -1)
    ELSE
    IF git.kind # "dict" THEN Message("'git' must be a dictionary", "", -1)
    ELSE
    IF /\ "context_lines" \in DOMAIN git.d
       /\ ~IsNonNegativeInt(git.d["context_lines"])
    THEN Message("'git.context_lines' must be a non-negative integer", "", -1)
    ELSE
    IF /\ "base_branch" \in DOMAIN git.d
       /\ \/ git.d["base_branch"].kind # "str"
          \/ Strip(git.d["base_branch"].s) = <<>>
    THEN Message("'git.base_branch' must be a non-empty string", "", -1)
    ELSE NoMessage

\* One file layer of load_config: skipped when the file does not exist;
\* merging a file whose top level is not a mapping fails in override.items().
MergeFile(acc, file) ==
    IF acc.exc # "none" \/ ~file.exists THEN acc
    ELSE LET y == load_yaml_config(file)
         IN  IF y.exc # "none" THEN Raised(y.exc, y.msg)
             ELSE IF y.value.kind # "dict"
                  THEN Raised("AttributeError", Message("object has no attribute 'items'", "", -1))
                  ELSE Returned(DictV(deep_merge_config(acc.value.d, y.value.d)))

MergeOverride(acc, override) ==
    IF acc.exc # "none" \/ DOMAIN override = {} THEN acc
    ELSE Returned(DictV(deep_merge_config(acc.value.d, override)))

\* A load that applies the repository-local file before the global file.
load_config_local_first(gfile, lfile, override) ==
    LET merged == MergeOverride(
                      MergeFile(MergeFile(Returned(DictV(DEFAULT_CONFIG)), lfile), gfile),
                      override)
    IN  IF merged.exc # "none" THEN merged
        ELSE LET m == validate_config(merged.value.d)
             IN  IF m # NoMessage THEN Raised("ConfigurationError", m)
                 ELSE merged

load_config(gfile, lfile, override) ==
    LET merged == MergeOverride(
                      MergeFile(MergeFile(Returned(DictV(DEFAULT_CONFIG)), gfile), lfile),
                      override)
    IN  IF merged.exc # "none" THEN merged
        ELSE LET m == validate_config(merged.value.d)
             IN  IF m # NoMessage THEN Raised("ConfigurationError", m)
                 ELSE merged

----------------------------------------------------------------------------
(* Inputs of the load_config specification: what the global file, the       *)
(* repository-local file and the override mapping may hold.                 *)

MaxNum == 1

Str_m1  == <<"m", "1">>
Str_m2  == <<"m", "2">>
Str_m3  == <<"m", "3">>
Str_dev == <<"d", "e", "v">>
Str_opt == <<"-", "v">>

Model(name) == DictV([name |-> StrV(name)])

ModelWithOptions(name, opts) == DictV([name |-> StrV(name), options |-> ListV(opts)])

ModelsChoices ==
    { ListV(<<Model(Str_m1)>>),
      ListV(<<Model(Str_m2), ModelWithOptions(Str_m1, <<StrV(Str_opt)>>)>>),
      ListV(<<Model(Str_m1), Model(<<>>)>>),
      ListV(<<DictV([options |-> ListV(<<>>)])>>),
      StrV(Str_m1) }

NumChoices == (-1)..MaxNum

DefaultsChoices ==
    {DictV([timeout |-> IntV(i)]) : i \in NumChoices}
    \cup {DictV([retries |-> IntV(i)]) : i \in NumChoices}
    \cup {DictV([parallel |-> IntV(-1), retries |-> IntV(0)]), IntV(5)}

GitChoices ==
    { DictV([base_branch |-> StrV(Str_dev)]),
      DictV([diff_scope |-> StrV(Str_committed), context_lines |-> IntV(0)]),
      DictV([base_branch |-> StrV(<<" ">>)]),
      NoneV }

PathsChoices == {DictV([template |-> StrV(<<"t">>)]), StrV(<<"p">>)}

\* Layers setting one section, and a few setting several.
LayerChoices ==
    {EmptyDict}
    \cup {[models |-> v] : v \in ModelsChoices}
    \cup {[defaults |-> v] : v \in DefaultsChoices}
    \cup {[git |-> v] : v \in GitChoices}
    \cup {[paths |-> v] : v \in PathsChoices}
    \cup {[defaults |-> DictV([timeout |-> IntV(i)]),
           git |-> DictV([diff_scope |-> StrV(Str_committed)])] : i \in NumChoices}
    \cup {[models |-> ListV(<<Model(Str_m2)>>),
           defaults |-> DictV([timeout |-> IntV(0), retries |-> IntV(-1)])]}

FileChoices ==
    {NoFile, BadYamlFile, YamlFile(NoneV), YamlFile(ListV(<<StrV(Str_m1)>>))}
    \cup {YamlFile(DictV(f)) : f \in LayerChoices \ {EmptyDict}}

Pending == [exc |-> "pending", msg |-> NoMessage, value |-> NoneV]

InitConfig ==
    /\ globalFile \in FileChoices
    /\ localFile \in FileChoices
    /\ configOverride \in LayerChoices
    /\ loaded = Pending

LoadConfig ==
    /\ loaded = Pending
    /\ loaded' = load_config(globalFile, localFile, configOverride)
    /\ UNCHANGED <<globalFile, localFile, configOverride>>

----------------------------------------------------------------------------
(* config.py on objects.  A dict is an object with an identity: the heap is *)
(* the sequence of the dict objects created so far, an object's address is  *)
(* its position, and an entry of an object is a cell holding either a value *)
(* that is not a dict or the address of a dict.                             *)

Leaf(v) == [ref |-> 0, val |-> v]

Ref(a) == [ref |-> a, val |-> NoneV]

\* obj[key] = cell
SetKey(obj, key, cell) ==
    [k \in DOMAIN obj \cup {key} |-> IF k = key THEN cell ELSE obj[k]]

\* Creates the objects of a value (a parsed file, a literal): yields the
\* heap with them and the cell that holds the value.
RECURSIVE Store(_, _)
RECURSIVE StoreEntries(_, _, _, _)
StoreEntries(h, d, keys, obj) ==
    IF keys = {} THEN [heap |-> Append(h, obj), cell |-> Ref(Len(h) + 1)]
    ELSE LET key    == CHOOSE k \in keys : TRUE
             stored == Store(h, d[key])
         IN  StoreEntries(stored.heap, d, keys \ {key}, SetKey(obj, key, stored.cell))

Store(h, value) ==
    IF value.kind # "dict" THEN [heap |-> h, cell |-> Leaf(value)]
    ELSE StoreEntries(h, value.d, DOMAIN value.d, EmptyDict)

\* The value a cell holds, nested dicts read through their addresses.
RECURSIVE CellValue(_, _)
CellValue(h, cell) ==
    IF cell.ref = 0 THEN cell.val
    ELSE DictV([k \in DOMAIN h[cell.ref] |-> CellValue(h, h[cell.ref][k])])

ObjectValue(h, addr) == CellValue(h, Ref(addr))

\* Lines 56-66: result = base.copy(), then one assignment to result per
\* item of override.  Yields the heap after the call and the address of
\* the dict returned.
RECURSIVE deep_merge_config_objects(_, _, _)
RECURSIVE MergeItems(_, _, _, _)
MergeItems(h, result, override, keys) ==
    IF keys = {} THEN [heap |-> h, addr |-> result]
    ELSE LET key   == CHOOSE k \in keys : TRUE
             value == h[override][key]
         IN  IF key \in DOMAIN h[result] /\ h[result][key].ref # 0 /\ value.ref # 0
             THEN LET merged == deep_merge_config_objects(h, h[result][key].ref, value.ref)
                  IN  MergeItems([merged.heap EXCEPT
                                     ![result] = SetKey(@, key, Ref(merged.addr))],
                                 result, override, keys \ {key})
             ELSE MergeItems([h EXCEPT ![result] = SetKey(@, key, value)],
                             result, override, keys \ {key})

\* A merge that assigns into base itself instead of a copy of it.
deep_merge_config_objects_in_place(h, base, override) ==
    MergeItems(h, base, override, DOMAIN h[override])

deep_merge_config_objects(h, base, override) ==
    LET copied == Append(h, h[base])
    IN  MergeItems(copied, Len(copied), override, DOMAIN h[override])

\* The module-level DEFAULT_CONFIG: created at import, before any call.
DefaultHeap == Store(<<>>, DictV(DEFAULT_CONFIG)).heap

DefaultRoot == Store(<<>>, DictV(DEFAULT_CONFIG)).cell.ref

\* The state of a load_config call: the heap, the address config is bound
\* to and the exception raised so far.
Loading(h, config, exc, msg) == [heap |-> h, config |-> config, exc |-> exc, msg |-> msg]

\* Lines 127-136: a file that exists is loaded, which creates its objects,
\* and merged into config.
MergeFileObjects(st, file) ==
    IF st.exc # "none" \/ ~file.exists THEN st
    ELSE LET y == load_yaml_config(file)
         IN  IF y.exc # "none" THEN Loading(st.heap, st.config, y.exc, y.msg)
             ELSE IF y.value.kind # "dict"
                  THEN Loading(st.heap, st.config, "AttributeError",
                               Message("object has no attribute 'items'", "", -1))
                  ELSE LET stored == Store(st.heap, y.value)
                           merged == deep_merge_config_objects(stored.heap, st.config,
                                                               stored.cell.ref)
                       IN  Loading(merged.heap, merged.addr, "none", NoMessage)

\* Lines 138-140: the caller's override mapping, an object at address
\* override, is merged when it is not empty.
MergeOverrideObjects(st, override) ==
    IF st.exc # "none" \/ DOMAIN st.heap[override] = {} THEN st
    ELSE LET merged == deep_merge_config_objects(st.heap, st.config, override)
         IN  Loading(merged.heap, merged.addr, "none", NoMessage)

\* load_config (lines 119-145) with the caller's override at address
\* override: yields the heap after the call and the outcome, whose value is
\* the address of the configuration returned.
load_config_objects(h, gfile, lfile, override) ==
    LET copied == Append(h, h[DefaultRoot])
        merged == MergeOverrideObjects(
                      MergeFileObjects(
                          MergeFileObjects(Loading(copied, Len(copied), "none", NoMessage),
                                           gfile),
                          lfile),
                      override)
    IN  IF merged.exc # "none"
        THEN [heap |-> merged.heap, outcome |-> Raised(merged.exc, merged.msg)]
        ELSE LET m == validate_config(ObjectValue(merged.heap, merged.config).d)
             IN  IF m # NoMessage
                 THEN [heap |-> merged.heap, outcome |-> Raised("ConfigurationError", m)]
                 ELSE [heap |-> merged.heap, outcome |-> Returned(IntV(merged.config))]

----------------------------------------------------------------------------
(* Inputs of the validate_config specification: each section is missing or  *)
(* holds one of the values a layer may give it.                             *)

ValidateModelsChoices ==
    ModelsChoices
    \cup { ListV(<<>>),
           ListV(<<Model(Str_m1), StrV(Str_m2)>>),
           ListV(<<DictV([name |-> StrV(Str_m1), options |-> StrV(Str_opt)])>>) }

\* The mapping holding the sections that are given (not Absent).
ConfigOf(models, defaults, git, paths) ==
    LET all == [models |-> models, defaults |-> defaults, git |-> git, paths |-> paths]
    IN  [key \in {k \in DOMAIN all : all[k] # Absent} |-> all[key]]

ValidateInputs ==
    { ConfigOf(m, d, g, p) : m \in ValidateModelsChoices \cup {Absent},
                             d \in DefaultsChoices \cup {Absent},
                             g \in GitChoices \cup {Absent},
                             p \in PathsChoices \cup {Absent} }

InitValidate ==
    /\ vConfig \in ValidateInputs
    /\ vOutcome = Pending

\* validate_config(config): returns None or raises ConfigurationError.
ValidateConfig ==
    /\ vOutcome = Pending
    /\ vOutcome' = LET m == validate_config(vConfig)
                   IN  IF m = NoMessage THEN Returned(NoneV)
                       ELSE Raised("ConfigurationError", m)
    /\ UNCHANGED vConfig

----------------------------------------------------------------------------
(* config.py: get_models_config *)

\* The first configured model called name (the inner loop with its break).
FirstNamed(all_models, name) ==
    all_models[CHOOSE i \in DOMAIN all_models :
                  /\ all_models[i].d["name"] = name
                  /\ \A j \in DOMAIN all_models : all_models[j].d["name"] = name => i <= j]

\* Characters in code point order, for the comparison of strings.
CodePointOrder == <<"1", "2", "3", "b", "m">>

Ord(c) == CHOOSE i \in DOMAIN CodePointOrder : CodePointOrder[i] = c

\* str.__lt__: lexicographic by code point.
RECURSIVE StrLess(_, _)
StrLess(a, b) ==
    IF b = <<>> THEN FALSE
    ELSE IF a = <<>> THEN TRUE
         ELSE IF Head(a) = Head(b) THEN StrLess(Tail(a), Tail(b))
              ELSE Ord(Head(a)) < Ord(Head(b))

\* `x < y` for two values sorted() compares.
ValueLess(x, y) == IF x.kind = "str" THEN StrLess(x.s, y.s) ELSE x.n < y.n

\* sorted() of a set: `<` raises TypeError between values of different
\* types and between two None values.
Sortable(S) ==
    \/ Cardinality(S) <= 1
    \/ \E kind \in {"str", "int"} : \A x \in S : x.kind = kind

RECURSIVE sorted(_)
sorted(S) ==
    IF S = {} THEN <<>>
    ELSE LET least == CHOOSE x \in S : \A y \in S \ {x} : ValueLess(x, y)
         IN  <<least>> \o sorted(S \ {least})

\* model_names is NoneV (no filter) or a list of names.  The message of the
\* error is built before the error is: sorted() may raise instead.
get_models_config(config, model_names) ==
    LET all_models      == config["models"].l
        available_names == {all_models[i].d["name"] : i \in DOMAIN all_models}
    IN  IF model_names.kind = "none" THEN Returned(ListV(all_models))
        ELSE LET unknown == {i \in DOMAIN model_names.l : model_names.l[i] \notin available_names}
             IN  IF unknown # {}
                 THEN IF ~Sortable(available_names)
                      THEN Raised("TypeError",
                                  Message("'<' not supported between instances", "", -1))
                      ELSE Raised("ConfigurationError",
                                  MessageListing("Model '{name}' not found in configuration. Available models: {names}",
                                                 "", Min(unknown) - 1, sorted(available_names)))
                 ELSE Returned(ListV([i \in DOMAIN model_names.l |->
                                         FirstNamed(all_models, model_names.l[i])]))

----------------------------------------------------------------------------
(* Inputs of the get_models_config specification: a validated models list   *)
(* (every entry is a mapping with a name key) and the requested names.      *)

MaxModels == 3

MaxRequested == 2

Str_b == <<"b">>

ModelEntryChoices ==
    { Model(Str_m1), Model(Str_m2), Model(Str_b),
      ModelWithOptions(Str_m1, <<StrV(Str_opt)>>),
      DictV([name |-> NoneV]) }

SeqsUpTo(S, n) == UNION {[1..k -> S] : k \in 0..n}

RequestedNames == {StrV(Str_m1), StrV(Str_m2), StrV(Str_b), StrV(Str_m3)}

InitModels ==
    /\ gmConfig \in {[models |-> ListV(q)] : q \in SeqsUpTo(ModelEntryChoices, MaxModels)}
    /\ gmNames \in {NoneV} \cup {ListV(q) : q \in SeqsUpTo(RequestedNames, MaxRequested)}
    /\ gmOutcome = Pending

GetModelsConfig ==
    /\ gmOutcome = Pending
    /\ gmOutcome' = get_models_config(gmConfig, gmNames)
    /\ UNCHANGED <<gmConfig, gmNames>>

----------------------------------------------------------------------------
(* git_integration.py.  Text that git prints is a sequence of pieces: a     *)
(* piece is a blank character ("\n", " ") or a run of characters with no    *)
(* blank at either end (a path, a label, the diff of one file).             *)

\* What git prints for the change of one file: its diff and a newline.
Hunk(name) == <<name, "\n">>

\* An untracked entry that `git ls-files --others` lists, with what
\* `git diff --no-index /dev/null <path>` prints for it: the diff of a new
\* file, or nothing for an entry git cannot diff (a nested repository, which
\* is listed as a directory).
NewFile(path) == [path |-> path, diff |-> Hunk(path)]

NestedRepository(path) == [path |-> path, diff |-> <<>>]

RECURSIVE Join(_, _)
Join(sections, sep) ==
    IF sections = <<>> THEN <<>>
    ELSE IF Len(sections) = 1 THEN sections[1]
         ELSE sections[1] \o sep \o Join(Tail(sections), sep)

\* str.split("\n")
RECURSIVE SplitLines(_)
SplitLines(text) ==
    IF \A i \in DOMAIN text : text[i] # "\n" THEN <<text>>
    ELSE LET nl == Min({i \in DOMAIN text : text[i] = "\n"})
         IN  <<SubSeq(text, 1, nl - 1)>> \o SplitLines(SubSeq(text, nl + 1, Len(text)))

\* subprocess.run(["git", ...]): return code and standard output.  Commands
\* that read the index fail (128) when the index cannot be read.
Completed(returncode, stdout) == [returncode |-> returncode, stdout |-> stdout]

GitDiffQuiet(r, changes) ==
    IF ~r.indexOk THEN Completed(128, <<>>)
    ELSE IF changes # <<>> THEN Completed(1, <<>>) ELSE Completed(0, <<>>)

GitDiff(r, changes) ==
    IF ~r.indexOk THEN Completed(128, <<>>) ELSE Completed(0, changes)

GitLsFilesOthers(r) ==
    IF ~r.indexOk THEN Completed(128, <<>>)
    ELSE Completed(0, Join([i \in DOMAIN r.untracked |-> <<r.untracked[i].path, "\n">>], <<>>))

GitDiffNoIndex(r, file_path) ==
    LET entry == CHOOSE e \in {r.untracked[i] : i \in DOMAIN r.untracked} : <<e.path>> = file_path
    IN  Completed(1, entry.diff)

validate_git_repo(r) ==
    IF r.path = "missing" THEN Raised("GitRepositoryError", Message("Path does not exist: {path}", "", -1))
    ELSE IF r.path = "file"
         THEN Raised("GitRepositoryError", Message("Path is not a directory: {path}", "", -1))
         ELSE IF r.path = "plain directory"
              THEN Raised("GitRepositoryError", Message("Not a git repository: {path}", "", -1))
              ELSE IF r.git = "fails"
                   THEN Raised("GitRepositoryError", Message("Git command not available", "", -1))
                   ELSE IF r.git = "missing"
                        THEN Raised("GitRepositoryError", Message("Git command not found", "", -1))
                        ELSE Returned(NoneV)

validate_base_branch(r) ==
    IF r.baseBranch = "local" THEN Returned(NoneV)
    ELSE IF r.baseBranch = "remote"
         THEN Raised("GitRepositoryError",
                     Message("Base branch '{base_branch}' exists remotely but not locally", "", -1))
         ELSE Raised("GitRepositoryError",
                     Message("Base branch '{base_branch}' does not exist", "", -1))

get_current_branch(r) ==
    IF r.detached THEN Raised("GitRepositoryError",
                              Message("Repository is in detached HEAD state", "", -1))
    ELSE Returned(StrV(<<"feature">>))

get_merge_base(r) ==
    IF r.mergeBase THEN Returned(StrV(<<"base">>))
    ELSE Raised("GitRepositoryError",
                Message("No merge base found between current branch and '{base_branch}'", "", -1))

\* A check that refuses a repository with uncommitted changes.
check_uncommitted_changes_blocking(r) ==
    LET ls == GitLsFilesOthers(r)
    IN  IF ls.returncode # 0 \/ r.staged # <<>> \/ r.unstaged # <<>> \/ Strip(ls.stdout) # <<>>
        THEN Raised("GitRepositoryError",
                    Message("Failed to check repository status: {e}", "", -1))
        ELSE Returned([flag |-> FALSE,
                       message |-> [text |-> "Repository is clean", parts |-> <<>>]])

\* Returns the pair (flag, message); the message is its format text and the
\* parts joined into it.  Only the third git call has check=True.
check_uncommitted_changes(r) ==
    LET has_staged   == GitDiffQuiet(r, r.staged).returncode # 0
        has_unstaged == GitDiffQuiet(r, r.unstaged).returncode # 0
        ls           == GitLsFilesOthers(r)
    IN  IF ls.returncode # 0
        THEN Raised("GitRepositoryError",
                    Message("Failed to check repository status: {e}", "", -1))
        ELSE LET has_untracked == Strip(ls.stdout) # <<>>
                 warning_parts ==
                     (IF has_staged THEN <<"staged changes">> ELSE <<>>)
                     \o (IF has_unstaged THEN <<"unstaged changes">> ELSE <<>>)
                     \o (IF has_untracked THEN <<"untracked files">> ELSE <<>>)
             IN  IF has_staged \/ has_unstaged \/ has_untracked
                 THEN Returned([flag |-> TRUE,
                                message |-> [text |-> "Repository has {parts}. These will not be included in the review.",
                                             parts |-> warning_parts]])
                 ELSE Returned([flag |-> FALSE,
                                message |-> [text |-> "Repository is clean", parts |-> <<>>]])

COMMITTED_LABEL == <<"# === COMMITTED CHANGES ===">>
\* A staged section that goes under the label of the unstaged one.
STAGED_LABEL_as_unstaged == <<"# === UNSTAGED CHANGES ===">>

STAGED_LABEL    == <<"# === STAGED CHANGES ===">>
UNSTAGED_LABEL  == <<"# === UNSTAGED CHANGES ===">>
UNTRACKED_LABEL == <<"# === UNTRACKED FILES ===">>

\* The entries of diff_sections for the untracked files: what git prints for
\* each, when it prints anything.
RECURSIVE UntrackedSections(_, _)
UntrackedSections(r, untracked_files) ==
    IF untracked_files = <<>> THEN <<>>
    ELSE LET out == Strip(GitDiffNoIndex(r, Head(untracked_files)).stdout)
         IN  (IF out # <<>> THEN <<out>> ELSE <<>>)
             \o UntrackedSections(r, Tail(untracked_files))

\* context_lines only changes what git prints and base_branch only selects
\* the merge base; both are part of the repository here.  `git diff HEAD`
\* compares the working tree with HEAD: it prints the staged changes and the
\* changes not yet staged.
generate_diff(r, diff_scope) ==
    LET merge_base == get_merge_base(r)
        failed == Raised("GitRepositoryError", Message("Failed to generate diff: {e}", "", -1))
    IN
    IF merge_base.exc # "none" THEN merge_base
    ELSE
    LET committed_diff == Strip(r.committed)
        committed_sections ==
            IF committed_diff # <<>>
            THEN (IF diff_scope = "all" THEN <<COMMITTED_LABEL>> ELSE <<>>) \o <<committed_diff>>
            ELSE <<>>
    IN
    IF diff_scope # "all"
    THEN IF committed_sections = <<>>
         THEN Raised("GitRepositoryError",
                     Message("No changes found between current branch and '{base_branch}'", "", -1))
         ELSE Returned(StrV(Join(committed_sections, <<"\n", "\n">>)))
    ELSE
    LET staged   == GitDiff(r, r.staged)
        unstaged == GitDiff(r, r.staged \o r.unstaged)
        ls       == GitLsFilesOthers(r)
    IN
    IF staged.returncode # 0 \/ unstaged.returncode # 0 \/ ls.returncode # 0 THEN failed
    ELSE
    LET staged_diff     == Strip(staged.stdout)
        unstaged_diff   == Strip(unstaged.stdout)
        lines           == SplitLines(ls.stdout)
        untracked_files == SelectSeq([i \in DOMAIN lines |-> Strip(lines[i])],
                                     LAMBDA f : f # <<>>)
        diff_sections ==
            committed_sections
            \o (IF staged_diff # <<>> THEN <<STAGED_LABEL, staged_diff>> ELSE <<>>)
            \o (IF unstaged_diff # <<>> THEN <<UNSTAGED_LABEL, unstaged_diff>> ELSE <<>>)
            \o (IF untracked_files # <<>>
                THEN <<UNTRACKED_LABEL>> \o UntrackedSections(r, untracked_files)
                ELSE <<>>)
    IN
    IF diff_sections = <<>>
    THEN Raised("GitRepositoryError",
                Message("No changes found between current branch and '{base_branch}'", "", -1))
    ELSE Returned(StrV(Join(diff_sections, <<"\n", "\n">>)))

\* The dictionary is not modelled beyond its merge base.
get_git_info(r) ==
    LET current_branch == get_current_branch(r)
        merge_base     == get_merge_base(r)
    IN  IF current_branch.exc # "none" THEN current_branch
        ELSE IF merge_base.exc # "none" THEN merge_base
             ELSE Returned(DictV([merge_base |-> merge_base.value]))

\* The outcome, the functions called in call order, and what
\* check_uncommitted_changes did when it was called.
Prepared(outcome, calls, status) ==
    [exc |-> outcome.exc, msg |-> outcome.msg, value |-> outcome.value,
     calls |-> calls, status |-> status]

validate_and_prepare_repo(r) ==
    LET repo_check   == validate_git_repo(r)
        branch_check == validate_base_branch(r)
        status       == check_uncommitted_changes(r)
        git_info     == get_git_info(r)
    IN  IF repo_check.exc # "none" THEN Prepared(repo_check, <<"validate_git_repo">>, Pending)
        ELSE IF branch_check.exc # "none"
             THEN Prepared(branch_check, <<"validate_git_repo", "validate_base_branch">>, Pending)
             ELSE IF status.exc # "none"
                  THEN Prepared(status, <<"validate_git_repo", "validate_base_branch",
                                          "check_uncommitted_changes">>, status)
                  ELSE LET calls == <<"validate_git_repo", "validate_base_branch",
                                      "check_uncommitted_changes", "get_git_info">>
                       IN  IF git_info.exc # "none" THEN Prepared(git_info, calls, status)
                           ELSE Prepared(
                                    Returned([git_info |-> git_info.value,
                                              warning  |-> IF status.value.flag
                                                           THEN status.value.message
                                                           ELSE [text |-> "None", parts |-> <<>>]]),
                                    calls, status)

----------------------------------------------------------------------------
(* Inputs of the git specification: a repository and a diff scope.          *)

UntrackedChoices ==
    { <<>>,
      <<NewFile("f")>>,
      <<NestedRepository("sub/")>>,
      <<NestedRepository("sub/"), NewFile("f")>>,
      <<NewFile("f"), NewFile("g")>> }

Repository(path, git, baseBranch, indexOk, detached, mergeBase, c, s, u, t) ==
    [path |-> path, git |-> git, baseBranch |-> baseBranch, indexOk |-> indexOk,
     detached |-> detached, mergeBase |-> mergeBase,
     committed |-> c, staged |-> s, unstaged |-> u, untracked |-> t]

\* Repositories that pass both validations, and one for each way of failing.
RepoChoices ==
    { Repository("repository", "ok", "local", i, d, m, c, s, u, t) :
        i \in BOOLEAN, d \in BOOLEAN, m \in BOOLEAN,
        c \in {<<>>, Hunk("c")}, s \in {<<>>, Hunk("s")}, u \in {<<>>, Hunk("u")},
        t \in UntrackedChoices }
    \cup { Repository(p, "ok", "local", TRUE, FALSE, TRUE, Hunk("c"), <<>>, <<>>, <<>>) :
             p \in {"missing", "file", "plain directory"} }
    \cup { Repository("repository", g, "local", TRUE, FALSE, TRUE, Hunk("c"), <<>>, <<>>, <<>>) :
             g \in {"fails", "missing"} }
    \cup { Repository("repository", "ok", b, TRUE, FALSE, TRUE, Hunk("c"), <<>>, <<>>, <<>>) :
             b \in {"remote", "none"} }

ScopeChoices == {"all", "committed", "staged"}

InitGit ==
    /\ repo \in RepoChoices
    /\ scope \in ScopeChoices
    /\ prepared = Pending
    /\ diffOutcome = Pending

ValidateAndPrepareRepo ==
    /\ prepared = Pending
    /\ prepared' = validate_and_prepare_repo(repo)
    /\ UNCHANGED <<repo, scope, diffOutcome>>

GenerateDiff ==
    /\ diffOutcome = Pending
    /\ diffOutcome' = generate_diff(repo, scope)
    /\ UNCHANGED <<repo, scope, prepared>>

----------------------------------------------------------------------------
(* context.py.  A file is what the functions can observe of it: its kind,   *)
(* its size in bytes, whether open(path, "rb") succeeds, the position of    *)
(* its first null byte (0 when it has none), the outcome of reading it as   *)
(* UTF-8 text ("ok", "UnicodeDecodeError" or "OSError") and its text.       *)

MAX_FILE_SIZE_MB == 10

MAX_TOTAL_SIZE_MB == 50

\* f.read(1024): the bytes the binary check looks at
CHUNK_SIZE == 1024

BytesPerMB == 1024 * 1024

File(kind, size, openable, nul, read, content) ==
    [kind |-> kind, size |-> size, openable |-> openable, nul |-> nul,
     read |-> read, content |-> content]

\* "\n--- {file_path} ---\n"
PathHeader(path) == <<"\n", "---", " ", path, " ", "---", "\n">>

ContextMessage(text, path) == [text |-> text, path |-> path]

\* `file_size_mb > MAX_FILE_SIZE_MB` with file_size_mb = st_size / (1024 * 1024)
validate_context_file(fs, file_path) ==
    LET file == fs[file_path]
    IN  IF file.kind = "missing"
        THEN Raised("ContextError", ContextMessage("Context file does not exist:", file_path))
        ELSE IF file.kind # "file"
             THEN Raised("ContextError", ContextMessage("Context path is not a file:", file_path))
             ELSE IF file.size > MAX_FILE_SIZE_MB * BytesPerMB
                  THEN Raised("ContextError", ContextMessage("Context file too large:", file_path))
                  ELSE Returned(NoneV)

\* A check that looks for a null byte in the whole file.
is_binary_file_whole(file) ==
    IF ~file.openable THEN TRUE ELSE file.nul \in 1..file.size

is_binary_file(file) ==
    IF ~file.openable THEN TRUE
    ELSE file.nul \in 1..Min({CHUNK_SIZE, file.size})

read_context_file(fs, file_path) ==
    LET file  == fs[file_path]
        valid == validate_context_file(fs, file_path)
    IN  IF valid.exc # "none" THEN valid
        ELSE IF is_binary_file(file)
             THEN Returned(StrV(PathHeader(file_path)
                                \o <<"[Binary file - content not included]", "\n">>))
             ELSE IF file.read = "ok"
                  THEN Returned(StrV(PathHeader(file_path) \o file.content \o <<"\n">>))
                  ELSE IF file.read = "UnicodeDecodeError"
                       THEN Returned(StrV(PathHeader(file_path)
                                \o <<"[Binary or non-UTF-8 file - content not included]", "\n">>))
                       ELSE Raised("ContextError",
                                   ContextMessage("Failed to read context file", file_path))

\* Path.resolve() of the paths the callers pass (resolve_context_paths makes
\* them absolute, so base_path plays no part).
Resolve(file_path) == IF file_path = "/r/./a" THEN "/r/a" ELSE file_path

\* The sum of the first loop; a listed path names the file it resolves to.
RECURSIVE TotalSize(_, _)
TotalSize(fs, context_files) ==
    IF context_files = <<>> THEN 0
    ELSE (IF fs[Resolve(Head(context_files))].kind = "file"
          THEN fs[Resolve(Head(context_files))].size ELSE 0)
         + TotalSize(fs, Tail(context_files))

\* The loop of build_repo_context: context_parts for the files not yet in
\* processed_files.
RECURSIVE ContextParts(_, _, _)
ContextParts(fs, context_files, processed_files) ==
    IF context_files = <<>> THEN <<>>
    ELSE LET resolved_path == Resolve(Head(context_files))
             rest == ContextParts(fs, Tail(context_files),
                                  processed_files \cup {resolved_path})
             file_content == read_context_file(fs, resolved_path)
         IN  IF resolved_path \in processed_files
             THEN ContextParts(fs, Tail(context_files), processed_files)
             ELSE IF file_content.exc = "none" THEN <<file_content.value.s>> \o rest
                  ELSE <<PathHeader(resolved_path)
                         \o <<"[Error reading file:", " ", file_content.msg.text, " ",
                              file_content.msg.path, "]", "\n">>>> \o rest

\* An aggregation without the `except ContextError` of the loop: the first
\* file that cannot be read aborts it.
build_repo_context_strict(fs, context_files) ==
    LET failing == {i \in DOMAIN context_files :
                      read_context_file(fs, Resolve(context_files[i])).exc # "none"}
    IN  IF context_files = <<>> THEN Returned(StrV(<<>>))
        ELSE IF TotalSize(fs, context_files) > MAX_TOTAL_SIZE_MB * BytesPerMB
             THEN Raised("ContextError", ContextMessage("Total context files too large:", ""))
             ELSE IF failing # {}
                  THEN read_context_file(fs, Resolve(context_files[Min(failing)]))
                  ELSE Returned(StrV(Join(ContextParts(fs, context_files, {}), <<"\n">>)))

build_repo_context(fs, context_files) ==
    IF context_files = <<>> THEN Returned(StrV(<<>>))
    ELSE IF TotalSize(fs, context_files) > MAX_TOTAL_SIZE_MB * BytesPerMB
         THEN Raised("ContextError", ContextMessage("Total context files too large:", ""))
         ELSE LET context_parts == ContextParts(fs, context_files, {})
              IN  IF context_parts = <<>> THEN Returned(StrV(<<>>))
                  ELSE Returned(StrV(Join(context_parts, <<"\n">>)))

----------------------------------------------------------------------------
(* Inputs of the build_repo_context specification: two files and a list of  *)
(* paths, one of the files reachable under two spellings.                   *)

MaxListed == 3

SmallSize == 2 * CHUNK_SIZE

ContextFileChoices ==
    { File("missing", 0, FALSE, 0, "OSError", <<>>),
      File("directory", 0, FALSE, 0, "OSError", <<>>),
      File("file", 0, TRUE, 0, "ok", <<>>),
      File("file", SmallSize, TRUE, 0, "ok", <<"text", "\n", "more">>),
      File("file", SmallSize, TRUE, 1, "ok", <<"bin">>),
      File("file", SmallSize, TRUE, CHUNK_SIZE, "ok", <<"bin">>),
      File("file", SmallSize, TRUE, CHUNK_SIZE + 1, "ok", <<"text", "nul">>),
      File("file", SmallSize, TRUE, 0, "UnicodeDecodeError", <<"latin">>),
      File("file", SmallSize, FALSE, 0, "OSError", <<"secret">>),
      File("file", SmallSize, TRUE, 0, "OSError", <<"gone">>),
      File("file", MAX_FILE_SIZE_MB * BytesPerMB, TRUE, 0, "ok", <<"big">>),
      File("file", MAX_FILE_SIZE_MB * BytesPerMB + 1, TRUE, 0, "ok", <<"bigger">>),
      File("file", (MAX_TOTAL_SIZE_MB * BytesPerMB) \div 2 + 1, TRUE, 0, "ok", <<"huge">>) }

ResolvedPaths == {"/r/a", "/r/b"}

ListedPaths == {"/r/a", "/r/./a", "/r/b"}

InitContext ==
    /\ fileSystem \in [ResolvedPaths -> ContextFileChoices]
    /\ contextFiles \in SeqsUpTo(ListedPaths, MaxListed)
    /\ contextOutcome = Pending

BuildRepoContext ==
    /\ contextOutcome = Pending
    /\ contextOutcome' = build_repo_context(fileSystem, contextFiles)
    /\ UNCHANGED <<fileSystem, contextFiles>>

----------------------------------------------------------------------------
(* template.py: substitute_variables.  A template and the values are        *)
(* sequences of characters; a mapping is a function from names (sequences   *)
(* of characters) to values.                                                *)

\* string.Template's idpattern [_a-z][_a-z0-9]*, for the characters that
\* templates and names are made of here.
IsIdStart(c) ==
    c \in {"_", "a", "c", "d", "e", "f", "i", "n", "o", "p", "r", "t", "x"}

IsIdChar(c) == IsIdStart(c) \/ c = "1"

\* The longest run of identifier characters at the head of t.
RECURSIVE IdRun(_)
IdRun(t) == IF t # <<>> /\ IsIdChar(Head(t)) THEN 1 + IdRun(Tail(t)) ELSE 0

\* A match of string.Template.pattern: the group that matched, the name it
\* captured and the text of the whole match (mo.group()).
Match(kind, name, text) == [kind |-> kind, name |-> name, text |-> text]

\* The match at the head of a text that starts with "$"; the alternatives
\* are tried in the order escaped, named, braced, invalid.
MatchAt(t) ==
    LET rest == Tail(t)
    IN  IF rest # <<>> /\ Head(rest) = "$" THEN Match("escaped", <<>>, <<"$", "$">>)
        ELSE IF rest # <<>> /\ IsIdStart(Head(rest))
             THEN Match("named", SubSeq(rest, 1, IdRun(rest)), SubSeq(t, 1, 1 + IdRun(rest)))
             ELSE IF /\ Len(rest) >= 3
                     /\ Head(rest) = "{"
                     /\ IsIdStart(rest[2])
                     /\ Len(rest) >= 2 + IdRun(Tail(rest))
                     /\ rest[2 + IdRun(Tail(rest))] = "}"
                  THEN Match("braced", SubSeq(rest, 2, 1 + IdRun(Tail(rest))),
                             SubSeq(t, 1, 3 + IdRun(Tail(rest))))
                  ELSE Match("invalid", <<>>, <<"$">>)

\* The callback of Template.substitute: a missing name is a KeyError and an
\* invalid "$" a ValueError.
convert_strict(mo, mapping) ==
    IF mo.kind \in {"named", "braced"}
    THEN IF mo.name \in DOMAIN mapping THEN Returned(StrV(mapping[mo.name]))
         ELSE Raised("KeyError", NoMessage)
    ELSE IF mo.kind = "escaped" THEN Returned(StrV(<<"$">>))
         ELSE Raised("ValueError", Message("Invalid placeholder in string", "", -1))

\* The callback of Template.safe_substitute
convert(mo, mapping) ==
    IF mo.kind \in {"named", "braced"}
    THEN IF mo.name \in DOMAIN mapping THEN Returned(StrV(mapping[mo.name]))
         ELSE Returned(StrV(mo.text))
    ELSE IF mo.kind = "escaped" THEN Returned(StrV(<<"$">>))
         ELSE IF mo.kind = "invalid" THEN Returned(StrV(mo.text))
              ELSE Raised("ValueError",
                          Message("Unrecognized named group in pattern", "", -1))

Prepend(text, outcome) ==
    IF outcome.exc # "none" THEN outcome ELSE Returned(StrV(text \o outcome.value.s))

\* pattern.sub(convert, template): one pass from left to right, the text a
\* replacement produces is not scanned again.
RECURSIVE safe_substitute(_, _)
safe_substitute(t, mapping) ==
    IF t = <<>> THEN Returned(StrV(<<>>))
    ELSE IF Head(t) # "$" THEN Prepend(<<Head(t)>>, safe_substitute(Tail(t), mapping))
         ELSE LET mo == MatchAt(t)
                  replacement == convert(mo, mapping)
              IN  IF replacement.exc # "none" THEN replacement
                  ELSE Prepend(replacement.value.s,
                               safe_substitute(SubSeq(t, Len(mo.text) + 1, Len(t)), mapping))

substitute_variables(template_content, vars_) ==
    IF template_content = <<>> THEN Returned(StrV(template_content))
    ELSE LET result == safe_substitute(template_content, vars_)
         IN  IF result.exc # "none"
             THEN Raised("TemplateError",
                         Message("Template variable substitution failed: {e}", "", -1))
             ELSE result

----------------------------------------------------------------------------
(* Inputs of the substitute_variables specification                         *)

MaxTemplate == 5

TemplateAlphabet == {"$", "{", "}", "a", "1", " "}

VariablesChoices ==
    { EmptyDict,
      [name \in {<<"a">>} |-> <<"X">>],
      [name \in {<<"a", "1">>} |-> <<>>],
      [name \in {<<"a">>, <<"a", "1">>} |->
          IF name = <<"a">> THEN <<"$", "a", "1">> ELSE <<"Y">>] }

InitTemplate ==
    /\ templateContent \in SeqsUpTo(TemplateAlphabet, MaxTemplate)
    /\ variables \in VariablesChoices
    /\ substituted = Pending

SubstituteVariables ==
    /\ substituted = Pending
    /\ substituted' = substitute_variables(templateContent, variables)
    /\ UNCHANGED <<templateContent, variables>>

----------------------------------------------------------------------------
(* template.py: populate_template.  The template file is what load_template *)
(* returns for it: a mapping from section names to texts.                   *)

Name_repo_context == <<"r", "e", "p", "o", "_", "c", "o", "n", "t", "e", "x", "t">>

Name_diff == <<"d", "i", "f", "f">>

\* Lines 75-78: the variables passed to every section.
TemplateVariables(repo_context, diff) ==
    [name \in {Name_repo_context, Name_diff} |->
        IF name = Name_diff THEN diff ELSE repo_context]

\* A populate_template that substitutes again in what it substituted.
populate_template_rescanning(template_data, repo_context, diff) ==
    LET variables_ == TemplateVariables(repo_context, diff)
        once       == [key \in DOMAIN template_data |->
                          substitute_variables(template_data[key], variables_)]
        twice      == [key \in DOMAIN template_data |->
                          substitute_variables(once[key].value.s, variables_)]
    IN  Returned(DictV([key \in DOMAIN template_data |-> twice[key].value]))

\* Lines 67-93, with no additional variables (as cli.py and api.py call it).
populate_template(template_data, repo_context, diff) ==
    LET variables_ == TemplateVariables(repo_context, diff)
        contents   == [key \in DOMAIN template_data |->
                          substitute_variables(template_data[key], variables_)]
        failing    == {key \in DOMAIN template_data : contents[key].exc # "none"}
    IN  IF failing # {}
        THEN Raised("TemplateError",
                    Message("Failed to populate template section '{key}': {e}",
                            CHOOSE key \in failing : TRUE, -1))
        ELSE Returned(DictV([key \in DOMAIN template_data |-> contents[key].value]))

----------------------------------------------------------------------------
(* Inputs of the populate_template specification: sections that use the     *)
(* two variables, and contents that themselves hold "$" tokens.             *)

Dollar(name) == <<"$">> \o name

Braced(name) == <<"$", "{">> \o name \o <<"}">>

SystemChoices == {<<"s">>, Dollar(Name_repo_context), Braced(Name_diff) \o <<"$">>}

PromptSectionChoices ==
    { <<>>,
      <<"$">>,
      Dollar(Name_diff),
      Braced(Name_diff) \o <<" ">> \o Dollar(Name_repo_context),
      Dollar(Name_repo_context) \o Dollar(Name_diff),
      <<"$">> \o Dollar(Name_diff),
      Dollar(Name_diff) \o <<"x">> }

DiffChoices ==
    {<<>>, <<"X">>, <<"$">>, Dollar(Name_repo_context), Braced(Name_diff)}

RepoContextChoices == {<<>>, <<"C">>, <<"$", "$">>, Dollar(Name_diff)}

InitPopulate ==
    /\ templateData \in [{"system", "prompt"} -> SystemChoices \cup PromptSectionChoices]
    /\ templateData["system"] \in SystemChoices
    /\ templateData["prompt"] \in PromptSectionChoices
    /\ repoContext \in RepoContextChoices
    /\ diffContent \in DiffChoices
    /\ populated = Pending

PopulateTemplate ==
    /\ populated = Pending
    /\ populated' = populate_template(templateData, repoContext, diffContent)
    /\ UNCHANGED <<templateData, repoContext, diffContent>>

----------------------------------------------------------------------------
(* template.py: format_prompt_for_nllm *)

\* dict.get(key, default) on a mapping from section names to texts.
Get(mapping, key, default) == IF key \in DOMAIN mapping THEN mapping[key] ELSE default

\* A formatter that joins the sections as they are, untrimmed.
format_prompt_for_nllm_untrimmed(populated_template) ==
    LET system_content == Get(populated_template, "system", <<>>)
        prompt_content == Get(populated_template, "prompt", <<>>)
    IN  IF prompt_content = <<>>
        THEN Raised("TemplateError", NoMessage)
        ELSE IF system_content # <<>>
             THEN Returned(system_content \o <<"\n", "\n">> \o prompt_content)
             ELSE Returned(prompt_content)

\* Lines 96-112.  An empty string is falsy.
format_prompt_for_nllm(populated_template) ==
    LET system_content == Strip(Get(populated_template, "system", <<>>))
        prompt_content == Strip(Get(populated_template, "prompt", <<>>))
    IN  IF prompt_content = <<>>
        THEN Raised("TemplateError", NoMessage)
        ELSE IF system_content # <<>>
             THEN Returned(system_content \o <<"\n", "\n">> \o prompt_content)
             ELSE Returned(prompt_content)

----------------------------------------------------------------------------
(* Inputs of the format_prompt_for_nllm specification                       *)

MaxSection == 3

SectionAlphabet == {" ", "\n", "a"}

\* A populated template: texts for the sections it has.
PopulatedTemplates ==
    UNION {[keys -> SeqsUpTo(SectionAlphabet, MaxSection)] :
              keys \in SUBSET {"system", "prompt"}}

InitFormat ==
    /\ populatedTemplate \in PopulatedTemplates
    /\ formatted = Pending

FormatPromptForNllm ==
    /\ formatted = Pending
    /\ formatted' = format_prompt_for_nllm(populatedTemplate)
    /\ UNCHANGED populatedTemplate

----------------------------------------------------------------------------
(* Inputs of the specification of calls on objects: the files and the       *)
(* override of each load_config call, and the objects each deep merge is    *)
(* given.                                                                   *)

MaxCalls == 2

ObjectFileChoices ==
    { NoFile,
      YamlFile(DictV([git |-> DictV([diff_scope |-> StrV(Str_committed)])])),
      YamlFile(DictV([models   |-> ListV(<<Model(Str_m1)>>),
                      defaults |-> DictV([timeout |-> IntV(MaxNum)])])) }

ObjectOverrideChoices ==
    { DictV(EmptyDict),
      DictV([git |-> DictV([base_branch |-> StrV(Str_dev)])]),
      DictV([paths |-> NoneV]) }

NoCall == [op |-> "none", args |-> <<>>, outcome |-> Pending]

InitObjects ==
    /\ heap = DefaultHeap
    /\ heapBefore = DefaultHeap
    /\ callCount = 0
    /\ lastCall = NoCall

\* The dicts a caller holds: DEFAULT_CONFIG, its sections and the dict the
\* previous call returned.
Held ==
    DOMAIN DefaultHeap
    \cup (IF lastCall.outcome.exc = "none" THEN {lastCall.outcome.value.n} ELSE {})

\* A caller merges two of the dicts it holds.
DeepMergeCall ==
    /\ callCount < MaxCalls
    /\ \E base \in Held : \E override \in Held :
          LET merged == deep_merge_config_objects(heap, base, override)
          IN  /\ heap' = merged.heap
              /\ lastCall' = [op |-> "deep_merge_config", args |-> <<base, override>>,
                              outcome |-> Returned(IntV(merged.addr))]
    /\ heapBefore' = heap
    /\ callCount' = callCount + 1

\* A caller loads the configuration; the override is a dict it builds for
\* the call.
LoadConfigCall ==
    /\ callCount < MaxCalls
    /\ \E gfile \in ObjectFileChoices : \E lfile \in ObjectFileChoices :
       \E override \in ObjectOverrideChoices :
          LET given  == Store(heap, override)
              loaded_ == load_config_objects(given.heap, gfile, lfile, given.cell.ref)
          IN  /\ heap' = loaded_.heap
              /\ heapBefore' = given.heap
              /\ lastCall' = [op |-> "load_config",
                              args |-> <<gfile, lfile, override>>,
                              outcome |-> loaded_.outcome]
    /\ callCount' = callCount + 1

----------------------------------------------------------------------------
(* errors.py and the exception handlers of cli.review *)

GitReviewerErrors ==
    {"GitReviewerError", "GitRepositoryError", "ConfigurationError",
     "NLLMError", "ContextError", "TemplateError"}

\* Exceptions deriving from Exception; typer.Exit is click's Exit, a
\* RuntimeError.  KeyboardInterrupt derives from BaseException only.
ExceptionSubclasses ==
    GitReviewerErrors
    \cup {"Exit", "AttributeError", "KeyError", "TypeError", "NameError", "RuntimeError"}

NoException == [type |-> "none", code |-> 0]

Exc(t) == [type |-> t, code |-> 0]

Exit(c) == [type |-> "Exit", code |-> c]

\* Handlers that report a tool error as success.
ExitCodeFor_error_as_success(exc) ==
    IF exc.type \in GitReviewerErrors THEN 0
    ELSE IF exc.type = "KeyboardInterrupt" THEN 130
         ELSE 1

\* Handlers in which the generic one also takes the interrupt.
ExitCodeFor_interrupt_as_error(exc) == 1

\* The exit code cli.review ends with when exc is raised inside its try:
\* each handler raises typer.Exit outside the try.
ExitCodeFor(exc) ==
    IF exc.type \in GitReviewerErrors THEN 1
    ELSE IF exc.type = "KeyboardInterrupt" THEN 130
         ELSE IF exc.type \in ExceptionSubclasses THEN 1
              ELSE exc.code

----------------------------------------------------------------------------
(* nllm_runner.py: NLLMRunner.run_review *)

NoObject == [pytype |-> "NoneType"]

\* One record of the library's result: the attributes run_review reads.
\* json is Absent when the record has no such attribute.
Record(model, status, text, json, stderr_tail, exit_code) ==
    [model |-> model, status |-> status, text |-> text, json |-> json,
     stderr_tail |-> stderr_tail, exit_code |-> exit_code]

\* What nllm.run returns: an object whose results attribute lists records.
NllmResults(records) == [pytype |-> "NllmResults", results |-> records]

RECURSIVE Decimal(_)
Decimal(n) ==
    LET digit == <<"0", "1", "2", "3", "4", "5", "6", "7", "8", "9">>[(n % 10) + 1]
    IN  IF n < 10 THEN <<digit>> ELSE Decimal(n \div 10) \o <<digit>>

\* str(value) as an f-string renders it.
Format(v) ==
    CASE v.kind = "str"  -> v.s
      [] v.kind = "none" -> <<"N", "o", "n", "e">>
      [] v.kind = "int"  -> IF v.n < 0 THEN <<"-">> \o Decimal(-v.n) ELSE Decimal(v.n)
      [] OTHER           -> <<"?">>

\* Lines 17-27: _prepare_model_options.  str.join raises TypeError on an
\* item that is not a string.
prepare_model_options(model_config) ==
    LET model_name    == model_config.d["name"]
        model_options == IF "options" \in DOMAIN model_config.d
                         THEN model_config.d["options"] ELSE ListV(<<>>)
    IN  IF ~Truthy(model_options) THEN Returned(<<>>)
        ELSE IF \E k \in DOMAIN model_options.l : model_options.l[k].kind # "str"
             THEN Raised("TypeError", NoMessage)
             ELSE Returned(<<Format(model_name) \o <<":">>
                             \o Join([k \in DOMAIN model_options.l |-> model_options.l[k].s],
                                     <<":">>)>>)

\* Lines 53-55: the option strings of the models, in model order.
RECURSIVE CliModelOptions(_)
CliModelOptions(models) ==
    IF models = <<>> THEN Returned(<<>>)
    ELSE LET first == prepare_model_options(Head(models))
             rest  == CliModelOptions(Tail(models))
         IN  IF first.exc # "none" THEN first
             ELSE IF rest.exc # "none" THEN rest
                  ELSE Returned(first.value \o rest.value)

\* json.loads on the documents the model's texts can spell: an integer
\* written with the digit 1, an empty object, an empty array, with blanks
\* around them.  A value that is not a string raises TypeError.
JsonLoads(text) ==
    IF text.kind # "str" THEN Raised("TypeError", NoMessage)
    ELSE LET doc == Strip(text.s)
         IN  IF doc = <<"{", "}">> THEN Returned(DictV(EmptyDict))
             ELSE IF doc = <<"[", "]">> THEN Returned(ListV(<<>>))
             ELSE IF doc = <<"1">> THEN Returned(IntV(1))
             ELSE IF doc = <<"1", "1">> THEN Returned(IntV(11))
             ELSE Raised("JSONDecodeError", NoMessage)

\* Lines 95-105: the parsed_output entry of a success (Absent when the key
\* is not set), or the exception the handler does not catch.
ParsedOutput(result) ==
    IF result.json # Absent /\ result.json # NoneV THEN Returned(result.json)
    ELSE LET parsed == JsonLoads(result.text)
         IN  IF parsed.exc = "none" THEN parsed
             ELSE IF parsed.exc = "JSONDecodeError" THEN Returned(Absent)
                  ELSE parsed

\* Lines 86-93 and 97-102.
OutputData(result) ==
    [model |-> result.model, success |-> TRUE, output |-> result.text,
     error |-> NoneV, parsed_output |-> ParsedOutput(result).value]

\* Line 114: the fallback text names the status and the exit code.
ErrorText(result) ==
    IF Truthy(result.stderr_tail) THEN result.stderr_tail
    ELSE StrV(<<"Model ", result.status, ": exit code ">> \o Format(result.exit_code))

\* Lines 110-118.
ErrorData(result) ==
    [model |-> result.model, success |-> FALSE, output |-> result.text,
     error |-> ErrorText(result), return_code |-> result.exit_code]

NamesOf(records, ok) ==
    {records[i].model : i \in {j \in DOMAIN records : (records[j].status = "ok") = ok}}

\* The latest record of the given kind for a model name (a dict assignment
\* per record, later ones overwriting earlier ones).
LastRecord(records, ok, name) ==
    records[Max({i \in DOMAIN records :
                    records[i].model = name /\ (records[i].status = "ok") = ok})]

\* The exception that ends the loop of lines 83-119, "none" when it ends
\* normally.
ConversionError(lib) ==
    LET failing == {i \in DOMAIN lib.results :
                       /\ lib.results[i].status = "ok"
                       /\ ParsedOutput(lib.results[i]).exc # "none"}
    IN  IF failing = {} THEN "none" ELSE ParsedOutput(lib.results[Min(failing)]).exc

\* Line 149: len(our_results).
SuccessCount(lib) == Cardinality(NamesOf(lib.results, TRUE))

\* The dict run_review builds from the library's result (lines 79-153).
ReshapeResults(models, lib) ==
    [pytype        |-> "dict",
     results       |-> [name \in NamesOf(lib.results, TRUE) |->
                          OutputData(LastRecord(lib.results, TRUE, name))],
     errors        |-> [name \in NamesOf(lib.results, FALSE) |->
                          ErrorData(LastRecord(lib.results, FALSE, name))],
     success_count |-> SuccessCount(lib),
     error_count   |-> Cardinality(NamesOf(lib.results, FALSE)),
     total_models  |-> Len(models)]

\* The keyword arguments nllm.run is called with (lines 67-77).
RunArguments(cli_models, cli_model_options, prompt) ==
    [cli_models |-> cli_models, cli_model_options |-> cli_model_options,
     llm_args |-> <<prompt>>]

NoArguments == RunArguments(<<>>, <<>>, <<>>)

RunOutcome(exc, msg, called, args, ret) ==
    [exc |-> exc, msg |-> msg, called |-> called, args |-> args, ret |-> ret]

\* A run_review without the checks of lines 37-47.
run_review_unchecked(models, prompt, importable, libOutcome) ==
    LET cli_models == [k \in DOMAIN models |-> models[k].d["name"]]
        options    == CliModelOptions(models)
        args       == RunArguments(cli_models, options.value, prompt)
    IN  IF options.exc # "none"
        THEN RunOutcome(Exc(options.exc), "", FALSE, NoArguments, NoObject)
        ELSE IF libOutcome.pytype # "NllmResults"
        THEN RunOutcome(Exc("NLLMError"), "Failed to execute nllm review", TRUE, args,
                        NoObject)
        ELSE IF ConversionError(libOutcome) # "none"
        THEN RunOutcome(Exc("NLLMError"), "Failed to execute nllm review", TRUE, args,
                        NoObject)
        ELSE RunOutcome(NoException, "", TRUE, args, ReshapeResults(models, libOutcome))

\* run_review (lines 29-156): libOutcome is what nllm.run does, raise
\* (NoObject) or return a result object.  Yields the exception raised with
\* its message, whether nllm.run was called and with what, and the value
\* returned.  Lines 49-55 run outside the try, so their exception is not
\* wrapped.
run_review(models, prompt, importable, libOutcome) ==
    LET cli_models == [k \in DOMAIN models |-> models[k].d["name"]]
        options    == CliModelOptions(models)
        args       == RunArguments(cli_models, options.value, prompt)
    IN  IF models = <<>>
        THEN RunOutcome(Exc("NLLMError"), "No models configured for review", FALSE,
                        NoArguments, NoObject)
        ELSE IF Strip(prompt) = <<>>
        THEN RunOutcome(Exc("NLLMError"), "Empty prompt provided", FALSE,
                        NoArguments, NoObject)
        ELSE IF ~importable
        THEN RunOutcome(Exc("NLLMError"), "nllm package not available", FALSE,
                        NoArguments, NoObject)
        ELSE IF options.exc # "none"
        THEN RunOutcome(Exc(options.exc), "", FALSE, NoArguments, NoObject)
        ELSE IF libOutcome.pytype # "NllmResults"
        THEN RunOutcome(Exc("NLLMError"), "Failed to execute nllm review", TRUE, args,
                        NoObject)
        ELSE IF ConversionError(libOutcome) # "none"
        THEN RunOutcome(Exc("NLLMError"), "Failed to execute nllm review", TRUE, args,
                        NoObject)
        ELSE RunOutcome(NoException, "", TRUE, args, ReshapeResults(models, libOutcome))

----------------------------------------------------------------------------
(* Inputs of the run_review specification: the selected models, the prompt, *)
(* whether nllm can be imported and what nllm.run does.                     *)

MaxRunModels == 2

MaxRecords == 2

Str_o == <<"-", "o">>

\* Entries of a validated models list: options, when present, are a list.
RunModelChoices ==
    { Model(Str_m1), Model(Str_m2),
      ModelWithOptions(Str_m1, <<StrV(Str_opt)>>),
      ModelWithOptions(Str_m2, <<StrV(Str_o), StrV(Str_opt)>>),
      ModelWithOptions(Str_m2, <<>>),
      ModelWithOptions(Str_m1, <<StrV(Str_o), IntV(1)>>) }

PromptChoices == {<<" ">>, <<"p">>}

RecordChoices ==
    { Record(Str_m1, "ok", StrV(<<"h", "i">>), NoneV, NoneV, IntV(0)),
      Record(Str_m2, "ok", StrV(<<"h", "i">>), NoneV, NoneV, IntV(0)),
      Record(Str_m1, "ok", StrV(<<"1">>), Absent, NoneV, IntV(0)),
      Record(Str_m1, "ok", StrV(<<"h", "i">>), DictV(EmptyDict), NoneV, IntV(0)),
      Record(Str_m2, "ok", NoneV, NoneV, NoneV, IntV(0)),
      Record(Str_m1, "error", StrV(<<>>), NoneV, StrV(<<"e">>), IntV(1)),
      Record(Str_m2, "error", StrV(<<>>), NoneV, StrV(<<>>), IntV(2)),
      Record(Str_m1, "timeout", NoneV, NoneV, NoneV, NoneV) }

LibraryChoices == {NoObject} \cup {NllmResults(q) : q \in SeqsUpTo(RecordChoices, MaxRecords)}

InitRunner ==
    /\ runModels \in SeqsUpTo(RunModelChoices, MaxRunModels)
    /\ runPrompt \in PromptChoices
    /\ nllmImportable \in BOOLEAN
    /\ library \in LibraryChoices
    /\ runOutcome = Pending

RunReview ==
    /\ runOutcome = Pending
    /\ runOutcome' = run_review(runModels, runPrompt, nllmImportable, library)
    /\ UNCHANGED <<runModels, runPrompt, nllmImportable, library>>

----------------------------------------------------------------------------
(* cli.py: the review command *)

\* Attribute lookup: a dict has keys, not attributes.
HasAttribute(obj, attr) == obj.pytype = "NllmResults" /\ attr \in {"results", "manifest"}

\* override.setdefault(section, {})[key] = value, skipped for an option
\* that was not given.
SetOption(override, section, key, value) ==
    IF value = Absent THEN override
    ELSE LET cur == IF section \in DOMAIN override THEN override[section].d ELSE EmptyDict
         IN  [k \in DOMAIN override \cup {section} |->
                 IF k = section
                 THEN DictV([j \in DOMAIN cur \cup {key} |-> IF j = key THEN value ELSE cur[j]])
                 ELSE override[k]]

ValidDiffScopes == {Str_all, Str_committed}

\* Lines 64-77: the override mapping built from the command-line options.
CliOverride(opts) ==
    SetOption(
      SetOption(
        SetOption(
          SetOption(
            SetOption(EmptyDict, "git", "context_lines", opts.context_lines),
            "git", "base_branch", opts.base_branch),
          "git", "diff_scope", opts.diff_scope),
        "defaults", "timeout", opts.timeout),
      "defaults", "retries", opts.retries)

\* Lines 160-194: display the results, count them and choose the exit.
\* Yields the exception raised inside the try (NoException when the
\* command runs to its end).
ReviewReport(nllm_results) ==
    IF ~HasAttribute(nllm_results, "results") THEN Exc("AttributeError")
    ELSE LET successes == Cardinality({i \in DOMAIN nllm_results.results :
                                          nllm_results.results[i].status = "ok"})
             failures  == Cardinality({i \in DOMAIN nllm_results.results :
                                          nllm_results.results[i].status # "ok"})
         IN  IF successes = 0 THEN Exit(1)
             ELSE IF failures > 0 THEN Exit(2)
                  ELSE NoException

StageOrder == <<"config", "git", "context", "template", "execution">>

\* An exception raised inside the try: its handler ends the command.
Abort(exc) ==
    /\ raised' = exc
    /\ exitCode' = ExitCodeFor(exc)
    /\ pc' = "done"

LibStatuses == {"ok", "error", "timeout"}

Str_bogus == <<"x">>

Str_staged == <<"s", "t", "a", "g", "e", "d">>


CliFileChoices ==
    { NoFile,
      YamlFile(DictV([models |-> ListV(<<Model(Str_m1)>>)])),
      YamlFile(DictV([models |-> ListV(<<Model(Str_m2),
                                         ModelWithOptions(Str_m1, <<StrV(Str_opt)>>)>>)])),
      YamlFile(DictV([paths |-> StrV(<<"p">>),
                      models |-> ListV(<<Model(Str_m1)>>)])),
      YamlFile(DictV([git |-> NoneV])),
      YamlFile(DictV([models |-> ListV(<<Model(Str_m1)>>),
                      git |-> DictV([diff_scope |-> StrV(Str_staged)])])) }

CliOptions ==
    [models        : {<<>>, <<StrV(Str_m1)>>, <<StrV(Str_m1), StrV(Str_m2)>>, <<StrV(Str_m3)>>},
     context_lines : {Absent},
     base_branch   : {Absent, StrV(Str_dev)},
     diff_scope    : {Absent, StrV(Str_committed), StrV(Str_bogus)},
     timeout       : {Absent, IntV(-1), IntV(MaxNum)},
     retries       : {Absent, IntV(0)}]

InitCli ==
    /\ pc = "config"
    /\ cliOpts \in CliOptions
    /\ globalFile \in CliFileChoices
    /\ localFile \in CliFileChoices
    /\ configOverride = EmptyDict
    /\ loaded = Pending
    /\ modelConfigs = <<>>
    /\ libReturn = NoObject
    /\ runReturn = NoObject
    /\ nllmCalled = FALSE
    /\ raised = NoException
    /\ exitCode = -1
    /\ stagesRun = <<>>
    /\ interruptedAt = "none"
    /\ diffScopeUsed = Absent

\* Lines 55-91: options, load_config, get_models_config.
StageConfig ==
    /\ pc = "config"
    /\ stagesRun' = Append(stagesRun, "config")
    /\ IF cliOpts.diff_scope # Absent /\ cliOpts.diff_scope.s \notin ValidDiffScopes
       THEN /\ Abort(Exit(1))
            /\ UNCHANGED <<configOverride, loaded, modelConfigs>>
       ELSE LET override == CliOverride(cliOpts)
                config   == load_config(globalFile, localFile, override)
                names    == IF cliOpts.models # <<>> THEN ListV(cliOpts.models) ELSE NoneV
            IN  /\ configOverride' = override
                /\ loaded' = config
                /\ IF config.exc # "none"
                   THEN Abort(Exc(config.exc)) /\ UNCHANGED modelConfigs
                   ELSE LET selected == get_models_config(config.value.d, names)
                        IN  IF selected.exc # "none"
                            THEN Abort(Exc(selected.exc)) /\ UNCHANGED modelConfigs
                            ELSE IF selected.value.l = <<>>
                                 THEN Abort(Exit(1)) /\ UNCHANGED modelConfigs
                                 ELSE /\ modelConfigs' = selected.value.l
                                      /\ pc' = "git"
                                      /\ UNCHANGED <<raised, exitCode>>
    /\ UNCHANGED <<cliOpts, globalFile, localFile, libReturn, runReturn,
                   nllmCalled, interruptedAt, diffScopeUsed>>

\* Lines 93-106: validate_and_prepare_repo, then generate_diff called with
\* the diff scope of the loaded configuration.  Either may raise, as the
\* repository decides.
StageGit ==
    /\ pc = "git"
    /\ stagesRun' = Append(stagesRun, "git")
    /\ LET git_config == loaded.value.d["git"].d
       IN  IF {"base_branch", "context_lines", "diff_scope"} \ DOMAIN git_config # {}
           THEN Abort(Exc("KeyError")) /\ UNCHANGED diffScopeUsed
           ELSE \E outcome \in {"ok", "prepare raises", "diff raises"} :
                   CASE outcome = "ok" ->
                          /\ diffScopeUsed' = git_config["diff_scope"]
                          /\ pc' = "context"
                          /\ UNCHANGED <<raised, exitCode>>
                     [] outcome = "prepare raises" ->
                          /\ Abort(Exc("GitRepositoryError"))
                          /\ UNCHANGED diffScopeUsed
                     [] outcome = "diff raises" ->
                          /\ diffScopeUsed' = git_config["diff_scope"]
                          /\ Abort(Exc("GitRepositoryError"))
    /\ UNCHANGED <<cliOpts, configVars, modelConfigs, libReturn, runReturn,
                   nllmCalled, interruptedAt>>

\* Lines 108-116: resolve_context_paths and build_repo_context.
StageContext ==
    /\ pc = "context"
    /\ stagesRun' = Append(stagesRun, "context")
    /\ \E outcome \in {"ok", "ContextError"} :
          IF outcome = "ok"
          THEN pc' = "template" /\ UNCHANGED <<raised, exitCode>>
          ELSE Abort(Exc(outcome))
    /\ UNCHANGED <<cliOpts, configVars, modelConfigs, libReturn, runReturn,
                   nllmCalled, interruptedAt, diffScopeUsed>>

\* Lines 118-131: populate_template and format_prompt_for_nllm.
StageTemplate ==
    /\ pc = "template"
    /\ stagesRun' = Append(stagesRun, "template")
    /\ LET paths == loaded.value.d["paths"]
       IN  IF paths.kind # "dict" THEN Abort(Exc("TypeError"))
           ELSE IF "template" \notin DOMAIN paths.d THEN Abort(Exc("KeyError"))
           ELSE \E outcome \in {"ok", "TemplateError"} :
                   IF outcome = "ok"
                   THEN pc' = "execution" /\ UNCHANGED <<raised, exitCode>>
                   ELSE Abort(Exc(outcome))
    /\ UNCHANGED <<cliOpts, configVars, modelConfigs, libReturn, runReturn,
                   nllmCalled, interruptedAt, diffScopeUsed>>

\* Lines 133-158: check_nllm_available and run_review.  format_prompt_for_nllm
\* returned, so the prompt is not blank.
StageExecution ==
    /\ pc = "execution"
    /\ stagesRun' = Append(stagesRun, "execution")
    /\ \E available \in BOOLEAN :
          IF ~available
          THEN Abort(Exit(1)) /\ UNCHANGED <<libReturn, runReturn, nllmCalled>>
          ELSE \E libOutcome \in
                     {NoObject} \cup
                     {NllmResults([i \in DOMAIN modelConfigs |->
                                      Record(modelConfigs[i].d["name"].s, st[i],
                                             StrV(<<"o", "k">>), NoneV, NoneV,
                                             IntV(0))]) :
                         st \in [DOMAIN modelConfigs -> LibStatuses]} :
                  LET run == run_review(modelConfigs, <<"p">>, TRUE, libOutcome)
                  IN  /\ nllmCalled' = run.called
                      /\ libReturn' = libOutcome
                      /\ runReturn' = run.ret
                      /\ IF run.exc # NoException
                         THEN Abort(run.exc)
                         ELSE pc' = "report" /\ UNCHANGED <<raised, exitCode>>
    /\ UNCHANGED <<cliOpts, configVars, modelConfigs, interruptedAt, diffScopeUsed>>

\* Lines 160-194: display_nllm_results, the saved-to line and the exit code.
StageReport ==
    /\ pc = "report"
    /\ LET exc == ReviewReport(runReturn)
       IN  IF exc # NoException
           THEN Abort(exc)
           ELSE /\ exitCode' = 0
                /\ pc' = "done"
                /\ UNCHANGED raised
    /\ UNCHANGED <<cliOpts, configVars, modelConfigs, libReturn, runReturn,
                   nllmCalled, stagesRun, interruptedAt, diffScopeUsed>>

\* A KeyboardInterrupt raised while a stage runs; in the execution stage it
\* may come before or after the library was called.
Interrupt ==
    /\ pc \in {"config", "git", "context", "template", "execution", "report"}
    /\ interruptedAt' = pc
    /\ Abort([type |-> "KeyboardInterrupt", code |-> 0])
    /\ stagesRun' = IF pc = "report" THEN stagesRun ELSE Append(stagesRun, pc)
    /\ nllmCalled' \in IF pc = "execution" THEN BOOLEAN ELSE {nllmCalled}
    /\ UNCHANGED <<cliOpts, modelConfigs, libReturn, runReturn, diffScopeUsed>>

----------------------------------------------------------------------------
(* api.py: review_repository *)

\* The names bound in the module namespace of api.py: its imports (lines
\* 3-11) and its own functions.
ApiModuleNames ==
    {"Path", "Any", "get_models_config", "load_config", "build_repo_context",
     "get_context_summary", "resolve_context_paths", "GitReviewerError",
     "generate_diff", "validate_and_prepare_repo", "NLLMRunner",
     "format_prompt_for_nllm", "populate_template", "review_repository",
     "check_configuration", "get_config_info", "create_config"}

\* Lines 57-69: the override mapping built from the arguments.
ApiOverride(args) ==
    SetOption(
      SetOption(
        SetOption(
          SetOption(
            SetOption(args.config_override, "git", "context_lines", args.context_lines),
            "git", "base_branch", args.base_branch),
          "defaults", "timeout", args.timeout),
        "defaults", "retries", args.retries),
      "paths", "template", args.template_path)

\* setdefault(section, {}) hands back a section the caller set to a
\* non-mapping, and the item assignment on it fails.
OverrideAssignable(args) ==
    \A section \in {"git", "defaults", "paths"} :
        LET given == CASE section = "git" ->
                            {args.context_lines, args.base_branch} # {Absent}
                       [] section = "defaults" ->
                            {args.timeout, args.retries} # {Absent}
                       [] section = "paths" -> args.template_path # Absent
        IN  given /\ section \in DOMAIN args.config_override
                => args.config_override[section].kind = "dict"

\* Lines 49-128, the body of the try: the exception it raises (NoException
\* when it returns).  rest is the outcome of the stages after get_models_config.
ApiTryBody(args, gfile, lfile, rest) ==
    IF ~OverrideAssignable(args) THEN Exc("TypeError")
    ELSE LET config == load_config(gfile, lfile, ApiOverride(args))
         IN  IF config.exc # "none" THEN Exc(config.exc)
             ELSE LET selected == get_models_config(config.value.d, args.models)
                  IN  IF selected.exc # "none" THEN Exc(selected.exc)
                      ELSE IF selected.value.l = <<>> THEN Exc("GitReviewerError")
                           ELSE Exc(rest)

\* review_repository: the exception that reaches the caller.  Line 47 runs
\* before the try; lines 130-134 re-raise a GitReviewerError and wrap
\* anything else.
review_repository(args, gfile, lfile, rest) ==
    IF "time" \notin ApiModuleNames THEN Exc("NameError")
    ELSE LET exc == ApiTryBody(args, gfile, lfile, rest)
         IN  IF exc.type = "none" THEN NoException
             ELSE IF exc.type \in GitReviewerErrors THEN exc
                  ELSE Exc("GitReviewerError")

ApiArguments ==
    [models          : {NoneV, ListV(<<StrV(Str_m1)>>)},
     context_lines   : {Absent},
     base_branch     : {Absent, StrV(Str_dev)},
     timeout         : {Absent, IntV(-1), IntV(MaxNum)},
     retries         : {Absent, IntV(0)},
     template_path   : {Absent},
     config_override : LayerChoices]

NotCalled == [done |-> FALSE, raised |-> NoException]

InitApi ==
    /\ apiArgs \in ApiArguments
    /\ apiOutcome = NotCalled

ReviewRepository ==
    /\ ~apiOutcome.done
    /\ \E rest \in {"none", "GitRepositoryError", "ContextError", "TemplateError",
                    "NLLMError", "GitReviewerError", "KeyError"} :
          apiOutcome' = [done |-> TRUE,
                         raised |-> review_repository(apiArgs, globalFile, localFile, rest)]
    /\ UNCHANGED apiArgs

----------------------------------------------------------------------------
(* Values of the variables a specification does not use *)

IdleMerge ==
    /\ mBase = EmptyDict
    /\ mOverride = EmptyDict
    /\ mResult = Unset

IdleConfig ==
    /\ globalFile = NoFile
    /\ localFile = NoFile
    /\ configOverride = EmptyDict
    /\ loaded = Pending

IdleCli ==
    /\ pc = "idle"
    /\ cliOpts = [models |-> <<>>, context_lines |-> Absent, base_branch |-> Absent,
                  diff_scope |-> Absent, timeout |-> Absent, retries |-> Absent]
    /\ modelConfigs = <<>>
    /\ libReturn = NoObject
    /\ runReturn = NoObject
    /\ nllmCalled = FALSE
    /\ raised = NoException
    /\ exitCode = -1
    /\ stagesRun = <<>>
    /\ interruptedAt = "none"
    /\ diffScopeUsed = Absent

IdleApi ==
    /\ apiArgs = [models |-> NoneV, context_lines |-> Absent, base_branch |-> Absent,
                  timeout |-> Absent, retries |-> Absent, template_path |-> Absent,
                  config_override |-> EmptyDict]
    /\ apiOutcome = NotCalled

IdleValidate ==
    /\ vConfig = EmptyDict
    /\ vOutcome = Pending

IdleModels ==
    /\ gmConfig = EmptyDict
    /\ gmNames = NoneV
    /\ gmOutcome = Pending

IdleGit ==
    /\ repo = <<>>
    /\ scope = <<>>
    /\ prepared = Pending
    /\ diffOutcome = Pending

IdleContext ==
    /\ fileSystem = <<>>
    /\ contextFiles = <<>>
    /\ contextOutcome = Pending

IdleTemplate ==
    /\ templateContent = <<>>
    /\ variables = EmptyDict
    /\ substituted = Pending

IdleUnits == IdleValidate /\ IdleModels /\ IdleGit /\ IdleContext /\ IdleTemplate

IdleFormat ==
    /\ populatedTemplate = EmptyDict
    /\ formatted = Pending

IdleRunner ==
    /\ runModels = <<>>
    /\ runPrompt = <<>>
    /\ nllmImportable = FALSE
    /\ library = NoObject
    /\ runOutcome = Pending

IdlePopulate ==
    /\ templateData = EmptyDict
    /\ repoContext = <<>>
    /\ diffContent = <<>>
    /\ populated = Pending

IdleObjects ==
    /\ heap = <<>>
    /\ heapBefore = <<>>
    /\ callCount = 0
    /\ lastCall = NoCall

IdleParts == IdleFormat /\ IdleRunner /\ IdlePopulate /\ IdleObjects

----------------------------------------------------------------------------
(* Specification of one deep_merge_config call *)

MergeInit == InitMerge /\ IdleConfig /\ IdleCli /\ IdleApi /\ IdleUnits /\ IdleParts

MergeNext == DeepMerge /\ UNCHANGED <<configVars, cliVars, apiVars, unitVars, partVars>>

SpecMerge == MergeInit /\ [][MergeNext]_vars

----------------------------------------------------------------------------
(* Specification of one load_config call *)

ConfigInit == IdleMerge /\ InitConfig /\ IdleCli /\ IdleApi /\ IdleUnits /\ IdleParts

ConfigNext == LoadConfig /\ UNCHANGED <<mergeVars, cliVars, apiVars, unitVars, partVars>>

SpecConfig == ConfigInit /\ [][ConfigNext]_vars

----------------------------------------------------------------------------
(* Specification of one run of the review command *)

Init == IdleMerge /\ InitCli /\ IdleApi /\ IdleUnits /\ IdleParts

Next ==
    \/ StageConfig /\ UNCHANGED <<mergeVars, apiVars, unitVars, partVars>>
    \/ StageGit /\ UNCHANGED <<mergeVars, apiVars, unitVars, partVars>>
    \/ StageContext /\ UNCHANGED <<mergeVars, apiVars, unitVars, partVars>>
    \/ StageTemplate /\ UNCHANGED <<mergeVars, apiVars, unitVars, partVars>>
    \/ StageExecution /\ UNCHANGED <<mergeVars, apiVars, unitVars, partVars>>
    \/ StageReport /\ UNCHANGED <<mergeVars, apiVars, unitVars, partVars>>
    \/ Interrupt /\ UNCHANGED <<mergeVars, configVars, apiVars, unitVars, partVars>>

Spec == Init /\ [][Next]_vars

----------------------------------------------------------------------------
(* Specification of one review_repository call *)

ApiInit ==
    /\ IdleMerge
    /\ IdleCli
    /\ InitApi
    /\ globalFile = NoFile
    /\ localFile \in CliFileChoices
    /\ configOverride = EmptyDict
    /\ loaded = Pending
    /\ IdleUnits /\ IdleParts

ApiNext == ReviewRepository /\ UNCHANGED <<mergeVars, configVars, cliVars, unitVars, partVars>>

SpecApi == ApiInit /\ [][ApiNext]_vars

----------------------------------------------------------------------------
(* Specification of one validate_config call *)

ValidateInit ==
    /\ IdleMerge /\ IdleConfig /\ IdleCli /\ IdleApi
    /\ InitValidate /\ IdleModels /\ IdleGit /\ IdleContext /\ IdleTemplate
    /\ IdleParts

ValidateNext ==
    ValidateConfig /\ UNCHANGED <<mergeVars, configVars, cliVars, apiVars,
                                  modelsVars, gitVars, contextVars, templateVars, partVars>>

SpecValidate == ValidateInit /\ [][ValidateNext]_vars

----------------------------------------------------------------------------
(* Specification of one get_models_config call *)

ModelsInit ==
    /\ IdleMerge /\ IdleConfig /\ IdleCli /\ IdleApi
    /\ IdleValidate /\ InitModels /\ IdleGit /\ IdleContext /\ IdleTemplate
    /\ IdleParts

ModelsNext ==
    GetModelsConfig /\ UNCHANGED <<mergeVars, configVars, cliVars, apiVars,
                                   validateVars, gitVars, contextVars, templateVars, partVars>>

SpecModels == ModelsInit /\ [][ModelsNext]_vars

----------------------------------------------------------------------------
(* Specification of the git_integration calls on one repository *)

GitInit ==
    /\ IdleMerge /\ IdleConfig /\ IdleCli /\ IdleApi
    /\ IdleValidate /\ IdleModels /\ InitGit /\ IdleContext /\ IdleTemplate
    /\ IdleParts

GitNext ==
    \/ ValidateAndPrepareRepo /\ UNCHANGED <<mergeVars, configVars, cliVars, apiVars,
                                             validateVars, modelsVars, contextVars, templateVars, partVars>>
    \/ GenerateDiff /\ UNCHANGED <<mergeVars, configVars, cliVars, apiVars,
                                   validateVars, modelsVars, contextVars, templateVars, partVars>>

SpecGit == GitInit /\ [][GitNext]_vars

----------------------------------------------------------------------------
(* Specification of one build_repo_context call *)

ContextInit ==
    /\ IdleMerge /\ IdleConfig /\ IdleCli /\ IdleApi
    /\ IdleValidate /\ IdleModels /\ IdleGit /\ InitContext /\ IdleTemplate
    /\ IdleParts

ContextNext ==
    BuildRepoContext /\ UNCHANGED <<mergeVars, configVars, cliVars, apiVars,
                                    validateVars, modelsVars, gitVars, templateVars, partVars>>

SpecContext == ContextInit /\ [][ContextNext]_vars

----------------------------------------------------------------------------
(* Specification of one substitute_variables call *)

TemplateInit ==
    /\ IdleMerge /\ IdleConfig /\ IdleCli /\ IdleApi
    /\ IdleValidate /\ IdleModels /\ IdleGit /\ IdleContext /\ InitTemplate
    /\ IdleParts

TemplateNext ==
    SubstituteVariables /\ UNCHANGED <<mergeVars, configVars, cliVars, apiVars,
                                       validateVars, modelsVars, gitVars, contextVars, partVars>>

SpecTemplate == TemplateInit /\ [][TemplateNext]_vars

----------------------------------------------------------------------------
(* Specification of one format_prompt_for_nllm call *)

FormatInit ==
    /\ IdleMerge /\ IdleConfig /\ IdleCli /\ IdleApi /\ IdleUnits
    /\ InitFormat /\ IdleRunner /\ IdlePopulate /\ IdleObjects

FormatNext ==
    FormatPromptForNllm /\ UNCHANGED <<mergeVars, configVars, cliVars, apiVars, unitVars,
                                       runnerVars, populateVars, objectVars>>

SpecFormat == FormatInit /\ [][FormatNext]_vars


----------------------------------------------------------------------------
(* Specification of one run_review call *)

RunnerInit ==
    /\ IdleMerge /\ IdleConfig /\ IdleCli /\ IdleApi /\ IdleUnits
    /\ IdleFormat /\ InitRunner /\ IdlePopulate /\ IdleObjects

RunnerNext ==
    RunReview /\ UNCHANGED <<mergeVars, configVars, cliVars, apiVars, unitVars,
                             formatVars, populateVars, objectVars>>

SpecRunner == RunnerInit /\ [][RunnerNext]_vars

----------------------------------------------------------------------------
(* Specification of one populate_template call *)

PopulateInit ==
    /\ IdleMerge /\ IdleConfig /\ IdleCli /\ IdleApi /\ IdleUnits
    /\ IdleFormat /\ IdleRunner /\ InitPopulate /\ IdleObjects

PopulateNext ==
    PopulateTemplate /\ UNCHANGED <<mergeVars, configVars, cliVars, apiVars, unitVars,
                                    formatVars, runnerVars, objectVars>>

SpecPopulate == PopulateInit /\ [][PopulateNext]_vars

----------------------------------------------------------------------------
(* Specification of a sequence of deep_merge_config and load_config calls   *)
(* on objects                                                               *)

ObjectsInit ==
    /\ IdleMerge /\ IdleConfig /\ IdleCli /\ IdleApi /\ IdleUnits
    /\ IdleFormat /\ IdleRunner /\ IdlePopulate /\ InitObjects

ObjectsNext ==
    \/ DeepMergeCall /\ UNCHANGED <<mergeVars, configVars, cliVars, apiVars, unitVars,
                                    formatVars, runnerVars, populateVars>>
    \/ LoadConfigCall /\ UNCHANGED <<mergeVars, configVars, cliVars, apiVars, unitVars,
                                     formatVars, runnerVars, populateVars>>

SpecObjects == ObjectsInit /\ [][ObjectsNext]_vars

----------------------------------------------------------------------------
(* Properties of deep_merge_config (SpecMerge) *)

RECURSIVE MergeRule(_, _, _)
MergeRule(b, o, m) ==
    /\ DOMAIN m = DOMAIN b \cup DOMAIN o
    /\ \A k \in DOMAIN b \ DOMAIN o : m[k] = b[k]
    /\ \A k \in DOMAIN o \ DOMAIN b : m[k] = o[k]
    /\ \A k \in DOMAIN b \cap DOMAIN o :
          IF b[k].kind = "dict" /\ o[k].kind = "dict"
          THEN m[k].kind = "dict" /\ MergeRule(b[k].d, o[k].d, m[k].d)
          ELSE m[k] = o[k]

\* C8: deep_merge_config keeps every key only in base, adds every key only
\* in override, merges by the same rule a key under which both sides hold a
\* mapping, and otherwise lets the override value replace the base value.
C8_DeepMergeRightBiased ==
    mResult.set => MergeRule(mBase, mOverride, mResult.d)

\* A merge two levels deep: under "a" both sides hold a mapping whose "a" is
\* again a mapping on both sides, with one conflicting leaf and one leaf
\* only the base has.
C8_Witness ==
    /\ mResult.set
    /\ "a" \in DOMAIN mBase /\ "a" \in DOMAIN mOverride
    /\ mBase["a"].kind = "dict" /\ mOverride["a"].kind = "dict"
    /\ "a" \in DOMAIN mBase["a"].d /\ "a" \in DOMAIN mOverride["a"].d
    /\ mBase["a"].d["a"].kind = "dict" /\ mOverride["a"].d["a"].kind = "dict"
    /\ "a" \in DOMAIN mBase["a"].d["a"].d /\ "a" \in DOMAIN mOverride["a"].d["a"].d
    /\ mBase["a"].d["a"].d["a"] # mOverride["a"].d["a"].d["a"]
    /\ "b" \in DOMAIN mBase["a"].d["a"].d /\ "b" \notin DOMAIN mOverride["a"].d["a"].d

----------------------------------------------------------------------------
(* Properties of load_config (SpecConfig) *)

\* What a file contributes to the merge when load_config returns.
FileLayer(file) ==
    IF file.exists /\ file.parses /\ file.content.kind = "dict"
    THEN file.content.d
    ELSE EmptyDict

\* The layers in increasing precedence.
ConfigLayers == <<DEFAULT_CONFIG, FileLayer(globalFile), FileLayer(localFile), configOverride>>

Setters(k) == {i \in DOMAIN ConfigLayers : k \in DOMAIN ConfigLayers[i]}

\* The layers whose mapping under section k takes part in the result: those
\* above the highest layer that sets k to a non-mapping.
Contributors(k) ==
    LET floor == Max({0} \cup {i \in Setters(k) : ConfigLayers[i][k].kind # "dict"})
    IN  {i \in Setters(k) : i > floor}

LeafSetters(k, j) == {i \in Contributors(k) : j \in DOMAIN ConfigLayers[i][k].d}

\* No file holds a non-empty top-level value other than a mapping (merging
\* such a file fails in override.items() before validation).
FilesMergeable ==
    \A file \in {globalFile, localFile} :
        file.exists /\ file.parses /\ Truthy(file.content) => file.content.kind = "dict"

\* C7: load_config resolves defaults < global file < local file < override:
\* a section whose highest-precedence setter gives a non-mapping (such as the
\* models list) is that value wholesale, and every key of a nested section
\* has the value of the highest-precedence layer that sets it, keys no
\* higher layer sets keeping the lower layer's value.
C7_LayerPrecedence ==
    loaded.exc = "none" =>
        LET R == loaded.value.d
        IN  /\ DOMAIN R = UNION {DOMAIN ConfigLayers[i] : i \in DOMAIN ConfigLayers}
            /\ \A k \in DOMAIN R :
                  LET top == ConfigLayers[Max(Setters(k))][k]
                  IN  IF top.kind # "dict"
                      THEN R[k] = top
                      ELSE /\ R[k].kind = "dict"
                           /\ DOMAIN R[k].d =
                                 UNION {DOMAIN ConfigLayers[i][k].d : i \in Contributors(k)}
                           /\ \A j \in DOMAIN R[k].d :
                                 R[k].d[j] = ConfigLayers[Max(LeafSetters(k, j))][k].d[j]

\* All three layers set keys of the defaults section: the override and the
\* global file disagree on timeout, only the local file sets retries, and
\* parallel comes from the built-in defaults.
C7_Witness ==
    /\ loaded.exc = "none"
    /\ \A i \in 2..4 :
          "defaults" \in DOMAIN ConfigLayers[i] /\ ConfigLayers[i]["defaults"].kind = "dict"
    /\ LeafSetters("defaults", "timeout") = {1, 2, 4}
    /\ LeafSetters("defaults", "retries") = {1, 3}
    /\ LeafSetters("defaults", "parallel") = {1}
    /\ ConfigLayers[2]["defaults"].d["timeout"] # ConfigLayers[4]["defaults"].d["timeout"]

\* C9: every configuration load_config returns has a non-empty name in
\* every model entry.
C9_EveryModelNamed ==
    loaded.exc = "none" =>
        \A i \in DOMAIN loaded.value.d["models"].l :
            LET model == loaded.value.d["models"].l[i]
            IN  /\ "name" \in DOMAIN model.d
                /\ model.d["name"].kind = "str"
                /\ model.d["name"].s # <<>>

\* The layers resolve defaults.key to a negative integer.
ResolvesNegative(key) ==
    /\ LeafSetters("defaults", key) # {}
    /\ ConfigLayers[Max(Setters("defaults"))]["defaults"].kind = "dict"
    /\ LET v == ConfigLayers[Max(LeafSetters("defaults", key))]["defaults"].d[key]
       IN  v.kind = "int" /\ v.n < 0

\* C10: load_config never returns a configuration in which defaults.parallel,
\* defaults.timeout or defaults.retries is negative, whichever layer supplied
\* the value; when the layers merge to a negative value it raises a
\* configuration error.
C10_NoNegativeDefaults ==
    loaded # Pending =>
        \A key \in {"parallel", "timeout", "retries"} :
            /\ (loaded.exc = "none" /\ key \in DOMAIN loaded.value.d["defaults"].d)
                  => (/\ loaded.value.d["defaults"].d[key].kind = "int"
                      /\ loaded.value.d["defaults"].d[key].n >= 0)
            /\ (FilesMergeable /\ ResolvesNegative(key))
                  => loaded.exc = "ConfigurationError"

\* A negative timeout supplied by the override mapping, over files that set
\* a valid one, is rejected.
C10_Witness ==
    /\ loaded.exc = "ConfigurationError"
    /\ loaded.msg = Message("'defaults.{key}' must be a non-negative integer", "timeout", -1)
    /\ LeafSetters("defaults", "timeout") = {1, 2, 4}
    /\ ConfigLayers[2]["defaults"].d["timeout"].n >= 0
    /\ ConfigLayers[4]["defaults"].d["timeout"].n < 0

----------------------------------------------------------------------------
(* Properties of the review command (Spec) *)

\* run_review returned: the execution stage ran to completion.
ExecutionReturned == runReturn # NoObject

Statuses == {libReturn.results[i].status : i \in DOMAIN libReturn.results}

Finished == pc = "done" /\ interruptedAt = "none"

\* C1: when the execution stage runs to completion and every model's record
\* reports success, the command exits with code 0.
C1_AllSuccessExitsZero ==
    Finished /\ ExecutionReturned /\ Statuses = {"ok"} => exitCode = 0

\* C2: when the execution stage returns with some models succeeded and some
\* failed the command exits with code 2, and with code 1 when every model
\* failed.
C2_PartialFailureExitsTwo ==
    Finished /\ ExecutionReturned =>
        /\ "ok" \in Statuses /\ Statuses # {"ok"} => exitCode = 2
        /\ "ok" \notin Statuses => exitCode = 1

IsPrefix(p, q) == Len(p) <= Len(q) /\ SubSeq(q, 1, Len(p)) = p

SetupErrors ==
    {"ConfigurationError", "GitRepositoryError", "ContextError", "TemplateError"}

\* C3: the stages run in the order configuration, git, context, template,
\* execution; when a setup stage raises its error the execution library is
\* never invoked and the command exits with code 1.
C3_SetupErrorAborts ==
    /\ IsPrefix(stagesRun, StageOrder)
    /\ nllmCalled => stagesRun = StageOrder
    /\ raised.type \in SetupErrors =>
          /\ ~nllmCalled
          /\ pc = "done"
          /\ exitCode = 1
          /\ stagesRun[Len(stagesRun)] # "execution"

\* The template stage, fourth in the order, raised its error.
C3_Witness ==
    /\ pc = "done"
    /\ raised.type = "TemplateError"
    /\ stagesRun = <<"config", "git", "context", "template">>
    /\ exitCode = 1

\* C5: the value run_review returns is the library's own result object,
\* unaltered, with its per-model records reachable as .results.
C5_ReturnsLibraryObject ==
    ExecutionReturned => runReturn = libReturn /\ HasAttribute(runReturn, "results")

\* C6: a KeyboardInterrupt raised at any stage makes the command exit with
\* code 130.
C6_InterruptExits130 ==
    interruptedAt # "none" => pc = "done" /\ exitCode = 130

\* The interrupt arrives in the execution stage, after the library was called.
C6_Witness ==
    /\ interruptedAt = "execution"
    /\ nllmCalled
    /\ exitCode = 130

----------------------------------------------------------------------------
(* Properties of review_repository (SpecApi) *)

\* C4: review_repository raises only GitReviewerError or one of its
\* subclasses.
C4_RaisesOnlyGitReviewerError ==
    apiOutcome.done => apiOutcome.raised.type \in GitReviewerErrors \cup {"none"}

----------------------------------------------------------------------------
(* Properties of validate_config (SpecValidate) *)

SectionOrder == <<"models", "defaults", "git", "paths">>

MissingSections(config) == {i \in DOMAIN SectionOrder : SectionOrder[i] \notin DOMAIN config}

ModelEntriesWellFormed(models) ==
    \A i \in DOMAIN models.l :
        /\ models.l[i].kind = "dict"
        /\ "name" \in DOMAIN models.l[i].d
        /\ "options" \in DOMAIN models.l[i].d => models.l[i].d["options"].kind = "list"

WellFormedSections(config) ==
    /\ MissingSections(config) = {}
    /\ config["models"].kind = "list"
    /\ ModelEntriesWellFormed(config["models"])

\* C11: validate_config returns normally only if the four sections models,
\* defaults, git and paths are present, models is a list, every model entry
\* has a name key and every options field present is a list; otherwise it
\* raises ConfigurationError, and when a section is missing the error names
\* the first missing one in the order models, defaults, git, paths.
C11_ValidateConfigChecks ==
    vOutcome # Pending =>
        /\ vOutcome.exc = "none" => WellFormedSections(vConfig)
        /\ ~WellFormedSections(vConfig) => vOutcome.exc = "ConfigurationError"
        /\ MissingSections(vConfig) # {} =>
              /\ vOutcome.msg.text = "Missing required configuration key: {key}"
              /\ vOutcome.msg.key = SectionOrder[Min(MissingSections(vConfig))]

\* Two sections are missing, the first of them is not models, and the call
\* has raised.
C11_Witness ==
    /\ vOutcome.exc = "ConfigurationError"
    /\ Cardinality(MissingSections(vConfig)) >= 2
    /\ "models" \in DOMAIN vConfig

----------------------------------------------------------------------------
(* Properties of get_models_config (SpecModels) *)

ConfiguredNames == {gmConfig["models"].l[i].d["name"] : i \in DOMAIN gmConfig["models"].l}

UnknownRequests == {i \in DOMAIN gmNames.l : gmNames.l[i] \notin ConfiguredNames}

IsSortedListing(q, S) ==
    /\ Len(q) = Cardinality(S)
    /\ {q[i] : i \in DOMAIN q} = S
    /\ \A i, j \in DOMAIN q : i < j => ValueLess(q[i], q[j])

\* C12: called with a list of requested names, get_models_config returns the
\* configured entries for those names in the requested order when every
\* name is configured; otherwise it raises ConfigurationError naming the
\* first requested name that is not configured and listing all configured
\* names in sorted order.
C12_RequestedModelsOrError ==
    (gmOutcome # Pending /\ gmNames.kind = "list") =>
        IF UnknownRequests = {}
        THEN /\ gmOutcome.exc = "none"
             /\ Len(gmOutcome.value.l) = Len(gmNames.l)
             /\ \A i \in DOMAIN gmNames.l :
                   /\ gmOutcome.value.l[i].d["name"] = gmNames.l[i]
                   /\ \E j \in DOMAIN gmConfig["models"].l :
                         gmOutcome.value.l[i] = gmConfig["models"].l[j]
        ELSE /\ gmOutcome.exc = "ConfigurationError"
             /\ gmOutcome.msg.index = Min(UnknownRequests) - 1
             /\ IsSortedListing(gmOutcome.msg.names, ConfiguredNames)

----------------------------------------------------------------------------
(* Properties of the git_integration calls (SpecGit) *)

PassedValidation ==
    repo.path = "repository" /\ repo.git = "ok" /\ repo.baseBranch = "local"

PresentCategories ==
    (IF repo.staged # <<>> THEN <<"staged changes">> ELSE <<>>)
    \o (IF repo.unstaged # <<>> THEN <<"unstaged changes">> ELSE <<>>)
    \o (IF repo.untracked # <<>> THEN <<"untracked files">> ELSE <<>>)

CheckReturnedCategories ==
    /\ prepared.status.exc = "none"
    /\ prepared.status.value.flag = (PresentCategories # <<>>)
    /\ prepared.status.value.message.parts = PresentCategories
    /\ prepared.calls[Len(prepared.calls)] = "get_git_info"

SectionLabels ==
    <<"# === COMMITTED CHANGES ===", "# === STAGED CHANGES ===",
      "# === UNSTAGED CHANGES ===", "# === UNTRACKED FILES ===">>

UntrackedContent ==
    Join(SelectSeq([i \in DOMAIN repo.untracked |-> Strip(repo.untracked[i].diff)],
                   LAMBDA d : d # <<>>),
         <<"\n", "\n">>)

SectionContent ==
    <<Strip(repo.committed), Strip(repo.staged), Strip(repo.unstaged), UntrackedContent>>

Positions(piece, text) == {i \in DOMAIN text : text[i] = piece}

\* sub occurs in text at or after position from and ends before position to
OccursBetween(sub, text, from, to) ==
    \E i \in from..(to - Len(sub)) : SubSeq(text, i, i + Len(sub) - 1) = sub

\* The position of the first label after position p, or the end of the text.
NextLabel(text, p) ==
    Min({i \in DOMAIN text : i > p /\ \E k \in DOMAIN SectionLabels : text[i] = SectionLabels[k]}
        \cup {Len(text) + 1})

\* C14: with scope committed the result of generate_diff is the committed
\* diff alone, whatever staged, unstaged or untracked changes exist; with
\* scope all every non-empty section is in the result under its own label,
\* the labels in the order committed, staged, unstaged, untracked.
C14_ScopeSelectsSections ==
    (diffOutcome # Pending /\ diffOutcome.exc = "none") =>
        LET text == diffOutcome.value.s
        IN  /\ scope = "committed" => text = Strip(repo.committed)
            /\ scope = "all" =>
                 /\ \A k \in DOMAIN SectionLabels :
                       SectionContent[k] # <<>> =>
                           /\ Cardinality(Positions(SectionLabels[k], text)) = 1
                           /\ LET p == Min(Positions(SectionLabels[k], text))
                              IN  OccursBetween(SectionContent[k], text, p + 1,
                                                NextLabel(text, p))
                 /\ \A j, k \in DOMAIN SectionLabels :
                       j < k => \A p \in Positions(SectionLabels[j], text) :
                                   \A q \in Positions(SectionLabels[k], text) : p < q

\* A diff of scope all for a repository with committed, staged and unstaged
\* changes and untracked files.
C14_Witness ==
    /\ diffOutcome # Pending
    /\ diffOutcome.exc = "none"
    /\ scope = "all"
    /\ \A k \in DOMAIN SectionContent : SectionContent[k] # <<>>

\* No section carries diff content: the committed diff is empty and, with
\* scope all, so are the staged and unstaged diffs and what git prints for
\* the untracked entries.
NothingToReview ==
    /\ SectionContent[1] = <<>>
    /\ scope = "all" => \A k \in DOMAIN SectionContent : SectionContent[k] = <<>>

\* C15: generate_diff raises GitRepositoryError whenever no section carries
\* any diff content; with scope all and no untracked entry yielding a diff
\* it does not return a section label alone.
C15_NothingToReviewRaises ==
    (diffOutcome # Pending /\ NothingToReview) => diffOutcome.exc = "GitRepositoryError"

----------------------------------------------------------------------------
(* Properties of build_repo_context (SpecContext) *)

\* The resolved paths of the listed files, each at its first occurrence.
RECURSIVE FirstOccurrences(_, _)
FirstOccurrences(paths, seen) ==
    IF paths = <<>> THEN <<>>
    ELSE IF Resolve(Head(paths)) \in seen THEN FirstOccurrences(Tail(paths), seen)
         ELSE <<Resolve(Head(paths))>>
              \o FirstOccurrences(Tail(paths), seen \cup {Resolve(Head(paths))})

ListedOnce == FirstOccurrences(contextFiles, {})

ListedFiles == {Resolve(contextFiles[i]) : i \in DOMAIN contextFiles}

\* The positions of a text where a path header starts.
HeaderStarts(text) ==
    {i \in 1..(Len(text) - 6) :
        /\ <<text[i], text[i + 1], text[i + 2]>> = <<"\n", "---", " ">>
        /\ <<text[i + 4], text[i + 5], text[i + 6]>> = <<" ", "---", "\n">>}

RECURSIVE Ascending(_)
Ascending(S) == IF S = {} THEN <<>> ELSE <<Min(S)>> \o Ascending(S \ {Min(S)})

\* The parts of an aggregated text: for each header, in order, its path and
\* the text under it (up to the newline that joins it to the next part).
Parts(text) ==
    LET starts == Ascending(HeaderStarts(text))
    IN  [k \in DOMAIN starts |->
            [path |-> text[starts[k] + 3],
             body |-> SubSeq(text, starts[k] + 7,
                             IF k < Len(starts) THEN starts[k + 1] - 2 ELSE Len(text))]]

Oversized(file) == file.kind = "file" /\ file.size > MAX_FILE_SIZE_MB * BytesPerMB

ListedTotal ==
    LET RECURSIVE Sum(_)
        Sum(q) == IF q = <<>> THEN 0
                  ELSE (IF fileSystem[Resolve(Head(q))].kind = "file"
                        THEN fileSystem[Resolve(Head(q))].size ELSE 0) + Sum(Tail(q))
    IN  Sum(contextFiles)

\* C16: build_repo_context raises ContextError, returning no text, when a
\* listed file exceeds the per-file size limit and when the total size of
\* the listed files exceeds the aggregate limit.
C16_SizeLimitsAbort ==
    contextOutcome # Pending =>
        /\ (\E p \in ListedFiles : Oversized(fileSystem[p])) => contextOutcome.exc = "ContextError"
        /\ ListedTotal > MAX_TOTAL_SIZE_MB * BytesPerMB => contextOutcome.exc = "ContextError"

NulInFirstKB(file) == file.nul \in 1..CHUNK_SIZE

\* A path that is missing or not a regular file, or a file whose text read
\* fails after the binary check could read it.
IndividualProblem(file) ==
    \/ file.kind # "file"
    \/ /\ ~Oversized(file)
       /\ file.openable
       /\ ~NulInFirstKB(file)
       /\ file.read = "OSError"

\* C17: a missing path, a path that is not a regular file and a failure
\* while reading never abort build_repo_context: the call raises only for
\* the aggregate limit, each such file is rendered as an error annotation
\* that contains its path, every listed file is aggregated in input order,
\* and an empty list gives the empty string.
C17_FileProblemsRenderedInline ==
    contextOutcome # Pending =>
        /\ contextFiles = <<>> => contextOutcome = Returned(StrV(<<>>))
        /\ contextOutcome.exc # "none" => ListedTotal > MAX_TOTAL_SIZE_MB * BytesPerMB
        /\ contextOutcome.exc = "none" =>
              LET parts == Parts(contextOutcome.value.s)
              IN  /\ [k \in DOMAIN parts |-> parts[k].path] = ListedOnce
                  /\ \A k \in DOMAIN parts :
                        IndividualProblem(fileSystem[parts[k].path]) =>
                            /\ parts[k].body # <<>>
                            /\ parts[k].body[1] = "[Error reading file:"
                            /\ \E i \in DOMAIN parts[k].body :
                                  parts[k].body[i] = parts[k].path

\* A missing path listed before a readable file, both aggregated.
C17_Witness ==
    /\ contextOutcome # Pending
    /\ contextOutcome.exc = "none"
    /\ Len(ListedOnce) = 2
    /\ fileSystem[ListedOnce[1]].kind = "missing"
    /\ fileSystem[ListedOnce[2]].kind = "file"
    /\ fileSystem[ListedOnce[2]].read = "ok"
    /\ Len(Parts(contextOutcome.value.s)) = 2

\* C18: listing a file several times gives the output, and the success or
\* failure, of listing it once at its first occurrence.
C18_DuplicatesListedOnce ==
    contextOutcome # Pending =>
        contextOutcome = build_repo_context(fileSystem, ListedOnce)

IsPlaceholder(body) ==
    \/ body = <<"[Binary file - content not included]", "\n">>
    \/ body = <<"[Binary or non-UTF-8 file - content not included]", "\n">>

\* C19: a context file (an existing regular file within the size limit) is
\* represented by a placeholder line exactly when its first 1KB contains a
\* null byte, or it cannot be opened for the binary check, or it does not
\* decode as UTF-8; a readable UTF-8 file without a null byte in its first
\* 1KB is included with its full content under its path header.
C19_PlaceholderForBinary ==
    (contextOutcome # Pending /\ contextOutcome.exc = "none") =>
        LET parts == Parts(contextOutcome.value.s)
        IN  \A k \in DOMAIN parts :
                LET file == fileSystem[parts[k].path]
                IN  (file.kind = "file" /\ ~Oversized(file)) =>
                        /\ IsPlaceholder(parts[k].body) <=>
                              \/ NulInFirstKB(file)
                              \/ ~file.openable
                              \/ file.read = "UnicodeDecodeError"
                        /\ (file.openable /\ ~NulInFirstKB(file) /\ file.read = "ok") =>
                              parts[k].body = file.content \o <<"\n">>

\* A file whose first null byte is just past the first 1KB, included in full.
C19_Witness ==
    /\ contextOutcome # Pending
    /\ contextOutcome.exc = "none"
    /\ \E k \in DOMAIN Parts(contextOutcome.value.s) :
          LET part == Parts(contextOutcome.value.s)[k]
          IN  /\ fileSystem[part.path].nul = CHUNK_SIZE + 1
              /\ part.body = fileSystem[part.path].content \o <<"\n">>

----------------------------------------------------------------------------
(* Properties of substitute_variables (SpecTemplate) *)

\* The number of "$" characters right before position i of the template.
DollarsBefore(i) ==
    Max({n \in 0..(i - 1) : \A k \in (i - n)..(i - 1) : templateContent[k] = "$"})

\* A "$" that does not complete a "$$" escape.
Active(i) == templateContent[i] = "$" /\ DollarsBefore(i) % 2 = 0

\* The number of name characters from position i on.
NameLength(i) ==
    Max({n \in 0..(Len(templateContent) - i + 1) :
            \A k \in i..(i + n - 1) : templateContent[k] \in {"_", "a", "1"}})

StartsName(i) == i <= Len(templateContent) /\ templateContent[i] \in {"_", "a"}

\* The token `$name` or `${name}` that starts at position i: its name and
\* its length (length 0 when no token starts there).
TokenAt(i) ==
    IF ~Active(i) THEN [name |-> <<>>, length |-> 0]
    ELSE IF StartsName(i + 1)
         THEN [name   |-> SubSeq(templateContent, i + 1, i + NameLength(i + 1)),
               length |-> 1 + NameLength(i + 1)]
         ELSE IF /\ i + 3 <= Len(templateContent)
                 /\ templateContent[i + 1] = "{"
                 /\ StartsName(i + 2)
                 /\ i + 2 + NameLength(i + 2) <= Len(templateContent)
                 /\ templateContent[i + 2 + NameLength(i + 2)] = "}"
              THEN [name   |-> SubSeq(templateContent, i + 2, i + 1 + NameLength(i + 2)),
                    length |-> 3 + NameLength(i + 2)]
              ELSE [name |-> <<>>, length |-> 0]

Supplied(i) == TokenAt(i).length > 0 /\ TokenAt(i).name \in DOMAIN variables

\* What the output holds for position i of the template: the value for the
\* first character of a supplied token and nothing for its other
\* characters, one "$" for a "$$" pair, the character itself otherwise.
Emitted(i) ==
    IF Supplied(i) THEN variables[TokenAt(i).name]
    ELSE IF \E j \in 1..(i - 1) : Supplied(j) /\ i < j + TokenAt(j).length THEN <<>>
         ELSE IF templateContent[i] = "$" /\ ~Active(i) THEN <<>>
              ELSE <<templateContent[i]>>

\* C20: substitute_variables never fails, whatever tokens the template
\* holds: each `$name` or `${name}` token whose name is supplied is replaced
\* by its value, each token whose name is not supplied stays as written, and
\* the empty template is returned unchanged.
C20_UnresolvedTokensKept ==
    substituted # Pending =>
        /\ substituted.exc = "none"
        /\ templateContent = <<>> => substituted.value.s = <<>>
        /\ substituted.value.s =
              Join([i \in DOMAIN templateContent |-> Emitted(i)], <<>>)

\* A template with a token whose name is supplied and a token whose name is
\* not, after substitution.
C20_Witness ==
    /\ substituted # Pending
    /\ \E i, j \in DOMAIN templateContent :
          /\ Supplied(i)
          /\ TokenAt(j).length > 0
          /\ ~Supplied(j)

----------------------------------------------------------------------------
(* Properties of format_prompt_for_nllm (SpecFormat) *)

Blank(text) == \A i \in DOMAIN text : IsSpace(text[i])

\* trimmed is text without its leading and trailing whitespace.
IsTrimOf(trimmed, text) ==
    \E i \in 1..(Len(text) + 1) : \E j \in (i - 1)..Len(text) :
        /\ trimmed = SubSeq(text, i, j)
        /\ \A k \in 1..(i - 1) : IsSpace(text[k])
        /\ \A k \in (j + 1)..Len(text) : IsSpace(text[k])
        /\ i <= j => ~IsSpace(text[i]) /\ ~IsSpace(text[j])

SystemSection == Get(populatedTemplate, "system", <<>>)

PromptSection == Get(populatedTemplate, "prompt", <<>>)

\* C21: format_prompt_for_nllm raises a template error when the prompt
\* section is blank; otherwise it returns the trimmed system text, a blank
\* line and the trimmed prompt text, or only the trimmed prompt text when the
\* system section is blank.  The text returned is never blank.
C21_FormattedPrompt ==
    formatted # Pending =>
        IF Blank(PromptSection)
        THEN formatted.exc = "TemplateError"
        ELSE /\ formatted.exc = "none"
             /\ ~Blank(formatted.value)
             /\ IF Blank(SystemSection)
                THEN IsTrimOf(formatted.value, PromptSection)
                ELSE \E k \in 1..Len(formatted.value) :
                        /\ IsTrimOf(SubSeq(formatted.value, 1, k), SystemSection)
                        /\ SubSeq(formatted.value, k + 1, k + 2) = <<"\n", "\n">>
                        /\ IsTrimOf(SubSeq(formatted.value, k + 3, Len(formatted.value)),
                                    PromptSection)

\* Both sections have text and whitespace around it was dropped.
C21_Witness ==
    /\ formatted # Pending
    /\ formatted.exc = "none"
    /\ ~Blank(SystemSection)
    /\ Len(formatted.value) < Len(SystemSection) + 2 + Len(PromptSection)

----------------------------------------------------------------------------
(* Properties of run_review (SpecRunner) *)

RunFinished == runOutcome # Pending

\* C22: with an empty model list, a prompt that is blank after trimming or
\* a library that cannot be imported, run_review raises NLLMError and
\* nllm.run is never called.
C22_ChecksBeforeLibraryCall ==
    RunFinished =>
        ((runModels = <<>> \/ Blank(runPrompt) \/ ~nllmImportable)
            => runOutcome.exc = Exc("NLLMError") /\ ~runOutcome.called)

\* Each of the three conditions, alone, stopped a run.
C22_Witness ==
    /\ RunFinished
    /\ ~runOutcome.called
    /\ runModels # <<>>
    /\ ~Blank(runPrompt)
    /\ ~nllmImportable
    /\ library # NoObject

\* The checks of lines 37-47 pass.
ChecksPass == runModels # <<>> /\ ~Blank(runPrompt) /\ nllmImportable

OptionsOf(model) == IF "options" \in DOMAIN model.d THEN model.d["options"].l ELSE <<>>

\* name:opt1:opt2:... for a model, its options in their configured order.
RECURSIVE Colons(_)
Colons(options) ==
    IF options = <<>> THEN <<>> ELSE <<":">> \o Format(Head(options)) \o Colons(Tail(options))

OptionString(model) == Format(model.d["name"]) \o Colons(OptionsOf(model))

\* One option string per model with options, in model order.
RECURSIVE OptionStrings(_)
OptionStrings(models) ==
    IF models = <<>> THEN <<>>
    ELSE (IF OptionsOf(Head(models)) = <<>> THEN <<>> ELSE <<OptionString(Head(models))>>)
         \o OptionStrings(Tail(models))

\* C23: the library is called with the name of every model and with one
\* option string name:opt1:opt2:... for each model that has options, in
\* model order, and with nothing for a model without options.
C23_OptionStringsPassed ==
    RunFinished /\ ChecksPass =>
        /\ runOutcome.called
        /\ runOutcome.args.cli_models = [k \in DOMAIN runModels |-> runModels[k].d["name"]]
        /\ runOutcome.args.cli_model_options = OptionStrings(runModels)

\* The same for models whose options are all strings.
C23_StringOptionsPassed ==
    (\A k \in DOMAIN runModels : \A j \in DOMAIN OptionsOf(runModels[k]) :
        OptionsOf(runModels[k])[j].kind = "str")
    => C23_OptionStringsPassed

\* run_review returned a value.
RunReturned == RunFinished /\ runOutcome.exc = NoException

\* C24: after run_review, every record of the library's result is filed by
\* its status alone: a record with status ok under its model name in the
\* successes, any other record under its model name in the failures, with a
\* non-empty error message (its trailing error text, or the fallback naming
\* its status and exit code) and its exit status.
C24_RecordsClassifiedByStatus ==
    RunReturned =>
        \A i \in DOMAIN library.results :
            LET result == library.results[i]
                ret    == runOutcome.ret
            IN  IF result.status = "ok"
                THEN /\ result.model \in DOMAIN ret.results
                     /\ ret.results[result.model].success
                     /\ ret.results[result.model].output = result.text
                ELSE /\ result.model \in DOMAIN ret.errors
                     /\ ~ret.errors[result.model].success
                     /\ Truthy(ret.errors[result.model].error)
                     /\ ret.errors[result.model].error \in
                            {result.stderr_tail,
                             StrV(<<"Model ", result.status, ": exit code ">>
                                  \o Format(result.exit_code))}
                     /\ ret.errors[result.model].return_code = result.exit_code

\* The same for results in which no two records of the same kind share a
\* model name.
C24_DistinctRecordsClassified ==
    (library # NoObject
     /\ \A i, j \in DOMAIN library.results :
           (/\ i # j
            /\ library.results[i].model = library.results[j].model)
           => (library.results[i].status = "ok") # (library.results[j].status = "ok"))
    => C24_RecordsClassifiedByStatus

\* The library supplies no structured output for the record.
NoStructuredOutput(result) == result.json \in {Absent, NoneV}

\* The raw text is one of the documents JsonLoads reads.
IsDocument(text) ==
    /\ text.kind = "str"
    /\ Strip(text.s) \in {<<"{", "}">>, <<"[", "]">>, <<"1">>, <<"1", "1">>}

\* C25: when the library was called and returned, a successful record
\* without structured output whose raw text (absent text included) does not
\* parse is kept as plain text with no parsed output, and the run does not
\* fail.
C25_ParseFailureKeepsPlainText ==
    RunFinished /\ runOutcome.called /\ library # NoObject =>
        /\ runOutcome.exc = NoException
        /\ \A name \in NamesOf(library.results, TRUE) :
              LET result == LastRecord(library.results, TRUE, name)
              IN  NoStructuredOutput(result) /\ ~IsDocument(result.text)
                  => /\ runOutcome.ret.results[name].output = result.text
                     /\ runOutcome.ret.results[name].parsed_output = Absent

\* The same for results whose successful records all carry a text.
C25_StringTextKeepsPlainText ==
    (library # NoObject
     /\ \A i \in DOMAIN library.results :
           library.results[i].status = "ok" => library.results[i].text.kind = "str")
    => C25_ParseFailureKeepsPlainText

\* C27: in the value run_review returns, success_count + error_count equals
\* total_models, also when a model name is requested twice or the library
\* returns several records for one name.
C27_CountsAddUp ==
    RunReturned =>
        runOutcome.ret.success_count + runOutcome.ret.error_count
            = runOutcome.ret.total_models

\* The same when the requested names are distinct and the library returns
\* one record per requested model, in model order.
C27_OneRecordPerModel ==
    (/\ library # NoObject
     /\ Len(library.results) = Len(runModels)
     /\ \A i, j \in DOMAIN runModels :
           i # j => runModels[i].d["name"] # runModels[j].d["name"]
     /\ \A i \in DOMAIN runModels : library.results[i].model = runModels[i].d["name"].s)
    => C27_CountsAddUp

----------------------------------------------------------------------------
(* Properties of the diff scope in the review command (Spec) *)

\* C26: generate_diff is only ever invoked with a diff scope of all or
\* committed, whether the scope comes from --diff-scope or from a global or
\* local configuration file.
C26_DiffScopeValid ==
    diffScopeUsed # Absent => diffScopeUsed \in {StrV(Str_all), StrV(Str_committed)}

\* The same for runs in which no configuration file sets the diff scope.
C26_OptionScopeValid ==
    (\A file \in {globalFile, localFile} :
        ~(/\ file.content.kind = "dict"
          /\ "git" \in DOMAIN file.content.d
          /\ file.content.d["git"].kind = "dict"
          /\ "diff_scope" \in DOMAIN file.content.d["git"].d))
    => C26_DiffScopeValid

----------------------------------------------------------------------------
(* Properties of populate_template (SpecPopulate) *)

\* Stand-ins for the two contents: single pieces that hold no "$".
DiffMark == "<diff>"

RepoContextMark == "<repo_context>"

\* text with each stand-in replaced by the content it stands for.
RECURSIVE Splice(_, _, _)
Splice(text, repo_context, diff) ==
    IF text = <<>> THEN <<>>
    ELSE (IF Head(text) = DiffMark THEN diff
          ELSE IF Head(text) = RepoContextMark THEN repo_context
          ELSE <<Head(text)>>)
         \o Splice(Tail(text), repo_context, diff)

HasToken(text) == \E i \in DOMAIN text : text[i] = "$"

\* C28: substitution is single-pass.  Every populated section is the section
\* populated with stand-ins for the diff and the context, with the contents
\* then copied in verbatim: a token inside a content is never substituted,
\* and one content does not change what is inserted for the other.
C28_ContentsInsertedVerbatim ==
    populated # Pending =>
        /\ populated.exc = "none"
        /\ \A key \in DOMAIN templateData :
              populated.value.d[key].s
                  = Splice(populate_template(templateData, <<RepoContextMark>>,
                                             <<DiffMark>>).value.d[key].s,
                           repoContext, diffContent)

\* The diff holds the token of the context, the prompt section uses the
\* diff, and the token is still in the populated prompt.
C28_Witness ==
    /\ populated # Pending
    /\ populated.exc = "none"
    /\ templateData["prompt"] = Dollar(Name_diff)
    /\ diffContent = Dollar(Name_repo_context)
    /\ repoContext = <<"C">>
    /\ populated.value.d["prompt"].s = Dollar(Name_repo_context)

----------------------------------------------------------------------------
(* Properties of the sections of a scope-all diff (SpecGit) *)

\* The change is printed once in the text, between the label and the next
\* label.
ReportedOnlyUnder(change, label, text) ==
    /\ Cardinality(Positions(change, text)) = 1
    /\ Cardinality(Positions(label, text)) = 1
    /\ LET p == Min(Positions(label, text))
           q == Min(Positions(change, text))
       IN  p < q /\ q < NextLabel(text, p)

\* C29: with scope all, a staged change is in the diff once, under the
\* staged label, and an unstaged change once, under the unstaged label.
C29_EachChangeInOneSection ==
    (diffOutcome # Pending /\ diffOutcome.exc = "none" /\ scope = "all") =>
        LET text == diffOutcome.value.s
        IN  /\ repo.staged # <<>> =>
                  ReportedOnlyUnder(Head(repo.staged), SectionLabels[2], text)
            /\ repo.unstaged # <<>> =>
                  ReportedOnlyUnder(Head(repo.unstaged), SectionLabels[3], text)

\* The same for repositories with nothing staged.
C29_UnstagedInOneSection == repo.staged = <<>> => C29_EachChangeInOneSection

----------------------------------------------------------------------------
(* Properties of the config.py calls on objects (SpecObjects) *)

\* The dict the last call returned.
Returns(op) ==
    lastCall.op = op /\ lastCall.outcome.exc = "none"

\* The calls on objects compute what the calls on values compute.
ObjectsAgreeWithValues ==
    /\ Returns("deep_merge_config") =>
          ObjectValue(heap, lastCall.outcome.value.n)
              = DictV(deep_merge_config(ObjectValue(heapBefore, lastCall.args[1]).d,
                                        ObjectValue(heapBefore, lastCall.args[2]).d))
    /\ lastCall.op = "load_config" =>
          LET expected == load_config(lastCall.args[1], lastCall.args[2],
                                      lastCall.args[3].d)
          IN  /\ lastCall.outcome.exc = expected.exc
              /\ expected.exc = "none" =>
                    ObjectValue(heap, lastCall.outcome.value.n) = expected.value

\* C30: a call of deep_merge_config or load_config leaves every dict that
\* existed before it as it was, its base, its override and their nested
\* dicts included, and DEFAULT_CONFIG holds its original contents after any
\* sequence of calls.
C30_MergeLeavesArgumentsAlone ==
    /\ \A addr \in DOMAIN heapBefore : heap[addr] = heapBefore[addr]
    /\ ObjectValue(heap, DefaultRoot) = DictV(DEFAULT_CONFIG)

\* After an earlier call, load_config returned a configuration whose git
\* section was merged from a file or an override.
C30_Witness ==
    /\ callCount >= 2
    /\ Returns("load_config")
    /\ ObjectValue(heap, lastCall.outcome.value.n).d["git"] # DEFAULT_CONFIG["git"]

====
